---- MODULE Spec2Model ----
(***************************************************************************)
(* A model of diffscape: the unified-diff parser (parse_diff), the         *)
(* DiffFile/DiffLine data model, the navigation state of App together      *)
(* with the key dispatch of run_app and the layout of the frame drawn by   *)
(* ui, the loops of the unified and the side-by-side renderer that pair    *)
(* Removed and Added lines, render_diff_line, compute_intra_line_diff and  *)
(* apply_diff_highlight.                                                   *)
(*                                                                         *)
(* Text is modelled as a sequence of one-character strings, so that the    *)
(* string operations of the parser (starts_with, split_whitespace,         *)
(* split_once, trim_start_matches, parse::<u32>, lines) are computed       *)
(* character by character as the Rust standard library computes them.      *)
(* A u32 is modelled exactly, as two 16-bit limbs.                         *)
(***************************************************************************)
EXTENDS Integers, Sequences, FiniteSets, TLC

VARIABLES
    diff_text,          \* the text handed to parse_diff (parser harness)
    parsed,             \* the outcome of parse_diff on diff_text
    files,              \* App.files
    selected_file,      \* App.selected_file
    file_list_state,    \* App.file_list_state (the selected row, an Option)
    scroll_offset,      \* App.scroll_offset
    show_side_by_side,  \* App.show_side_by_side
    show_shortcuts,     \* App.show_shortcuts
    pc,                 \* position of main / run_app
    view,               \* what a renderer is called with (renderer harness)
    unified,            \* the outcome of render_unified_diff on view
    side_by_side,       \* the outcome of render_side_by_side_diff on view
    old_text,           \* first argument of compute_intra_line_diff
    new_text,           \* second argument of compute_intra_line_diff
    intra_line_diff,    \* the outcome of compute_intra_line_diff
    spans,              \* first argument of apply_diff_highlight
    diff_ranges,        \* second argument of apply_diff_highlight
    highlighted,        \* the outcome of apply_diff_highlight
    diff_line,          \* the DiffLine handed to render_diff_line
    rendered_line,      \* the outcome of render_diff_line on diff_line
    frame               \* the last frame drawn by ui

parseVars == <<diff_text, parsed>>
appVars == <<files, selected_file, file_list_state, scroll_offset,
             show_side_by_side, show_shortcuts>>
lineVars == <<spans, diff_ranges, highlighted, diff_line, rendered_line>>
harnessVars == <<view, unified, side_by_side, old_text, new_text,
                 intra_line_diff, lineVars>>
uiVars == <<harnessVars, frame>>
vars == <<diff_text, parsed, files, selected_file, file_list_state,
          scroll_offset, show_side_by_side, show_shortcuts, pc,
          view, unified, side_by_side, old_text, new_text, intra_line_diff,
          spans, diff_ranges, highlighted, diff_line, rendered_line, frame>>

----------------------------------------------------------------------------
(* Bounds of the model *)

\* longest enumerated diff text, in lines
MaxTextLines == 4
\* most files in a diff loaded into the App
MaxFiles == 3
\* most body lines of one file in a diff loaded into the App
MaxFileLines == 2

----------------------------------------------------------------------------
(* Option<T> *)

None == <<>>
Some(x) == <<x>>
IsSome(o) == o /= <<>>
Unwrap(o) == o[1]

Max(a, b) == IF a >= b THEN a ELSE b

----------------------------------------------------------------------------
(* u32, as two 16-bit limbs: value = hi * 65536 + lo *)

Limb == 65536

U32(n) == [hi |-> n \div Limb, lo |-> n % Limb]
U32Max == [hi |-> Limb - 1, lo |-> Limb - 1]

U32Less(x, y) == x.hi < y.hi \/ (x.hi = y.hi /\ x.lo < y.lo)
U32Leq(x, y) == x = y \/ U32Less(x, y)

\* x + n as a natural number (not reduced modulo 2^32), n < 65536: the hi
\* limb of the result exceeds 65535 exactly when the sum does not fit a u32
NatPlus(x, n) ==
    LET s == x.lo + n
    IN  [hi |-> x.hi + (s \div Limb), lo |-> s % Limb]

\* `x += 1` on a u32: with overflow checks (the default of a debug build)
\* the addition panics at u32::MAX, without them (release) it wraps to 0
AddAssignOne(x, overflow_checks) ==
    IF x = U32Max
    THEN [panic |-> overflow_checks, value |-> U32(0)]
    ELSE [panic |-> FALSE, value |-> NatPlus(x, 1)]

----------------------------------------------------------------------------
(* str operations of the Rust standard library *)

Digits == <<"0", "1", "2", "3", "4", "5", "6", "7", "8", "9">>
IsDigit(c) == \E d \in 1..10 : Digits[d] = c
DigitVal(c) == (CHOOSE d \in 1..10 : Digits[d] = c) - 1

IsWhitespace(c) == c \in {" ", "\t", "\n", "\r"}

\* str::starts_with
StartsWith(s, prefix) ==
    /\ Len(s) >= Len(prefix)
    /\ SubSeq(s, 1, Len(prefix)) = prefix

\* &s[n..]
DropFirst(s, n) == SubSeq(s, n + 1, Len(s))

\* str::trim_start_matches: the prefix is removed as often as it matches
RECURSIVE TrimStartMatches(_, _)
TrimStartMatches(s, pat) ==
    IF StartsWith(s, pat)
    THEN TrimStartMatches(DropFirst(s, Len(pat)), pat)
    ELSE s

\* index of the first occurrence of character c in s at or after i, 0 if none
RECURSIVE FindFrom(_, _, _)
FindFrom(s, c, i) ==
    IF i > Len(s) THEN 0
    ELSE IF s[i] = c THEN i
    ELSE FindFrom(s, c, i + 1)

\* str::split_once(c): Some(<<before, after>>) at the first c, else None
SplitOnce(s, c) ==
    LET k == FindFrom(s, c, 1)
    IN  IF k = 0 THEN None
        ELSE Some(<<SubSeq(s, 1, k - 1), SubSeq(s, k + 1, Len(s))>>)

\* str::split(c).next(): the text before the first c, all of s if there is none
SplitFirst(s, c) ==
    LET k == FindFrom(s, c, 1)
    IN  IF k = 0 THEN s ELSE SubSeq(s, 1, k - 1)

\* str::split_whitespace().collect(): the maximal runs of non-whitespace
RECURSIVE SplitWhitespaceFrom(_, _, _, _)
SplitWhitespaceFrom(s, i, cur, acc) ==
    IF i > Len(s)
    THEN IF cur = <<>> THEN acc ELSE Append(acc, cur)
    ELSE IF IsWhitespace(s[i])
    THEN SplitWhitespaceFrom(s, i + 1, <<>>,
                             IF cur = <<>> THEN acc ELSE Append(acc, cur))
    ELSE SplitWhitespaceFrom(s, i + 1, Append(cur, s[i]), acc)

SplitWhitespace(s) == SplitWhitespaceFrom(s, 1, <<>>, <<>>)

\* str::lines(): the pieces ended by "\n", with one "\r" before the "\n"
\* removed; what follows the last "\n" is a line unless it is empty
RECURSIVE LinesFrom(_, _, _)
LinesFrom(text, i, acc) ==
    IF i > Len(text) THEN acc
    ELSE LET k == FindFrom(text, "\n", i)
         IN  IF k = 0 THEN Append(acc, SubSeq(text, i, Len(text)))
             ELSE LinesFrom(text, k + 1,
                            Append(acc, IF k - 1 >= i /\ text[k - 1] = "\r"
                                        THEN SubSeq(text, i, k - 2)
                                        ELSE SubSeq(text, i, k - 1)))

Lines(text) == LinesFrom(text, 1, <<>>)

\* the digits of str::parse::<u32>, accumulated with checked arithmetic:
\* None on a non-digit or when the value exceeds u32::MAX
RECURSIVE ParseDigits(_, _, _)
ParseDigits(s, i, acc) ==
    IF i > Len(s) THEN Some(acc)
    ELSE IF ~IsDigit(s[i]) THEN None
    ELSE LET lo10 == acc.lo * 10 + DigitVal(s[i])
             hi10 == acc.hi * 10 + (lo10 \div Limb)
         IN  IF hi10 >= Limb THEN None
             ELSE ParseDigits(s, i + 1, [hi |-> hi10, lo |-> lo10 % Limb])

\* str::parse::<u32>().ok(): empty text and a lone sign are errors, one
\* leading "+" is accepted, "-" is not
ParseU32(s) ==
    IF s = <<>> THEN None
    ELSE LET digits == IF s[1] = "+" THEN Tail(s) ELSE s
         IN  IF digits = <<>> THEN None ELSE ParseDigits(digits, 1, U32(0))

UnwrapOr(o, default) == IF IsSome(o) THEN Unwrap(o) ELSE default

----------------------------------------------------------------------------
(* diff_file.rs *)

LineTypes == {"Context", "Added", "Removed", "Header"}

DiffFileNew(name) == [name |-> name, status |-> "M", lines |-> <<>>]

line_count(file) == Len(file.lines)

add_line(file, line) == [file EXCEPT !.lines = Append(@, line)]

new_header(line) ==
    [line_type |-> "Header", old_line_num |-> None, new_line_num |-> None,
     content |-> line]

new_added(line, line_number) ==
    [line_type |-> "Added", old_line_num |-> None,
     new_line_num |-> Some(line_number), content |-> DropFirst(line, 1)]

\* new_removed with the number stored on both sides
new_removed_mut(line, line_number) ==
    [line_type |-> "Removed", old_line_num |-> Some(line_number),
     new_line_num |-> Some(line_number), content |-> DropFirst(line, 1)]

new_removed(line, line_number) ==
    [line_type |-> "Removed", old_line_num |-> Some(line_number),
     new_line_num |-> None, content |-> DropFirst(line, 1)]

new_context(line, old_line_num, new_line_num) ==
    [line_type |-> "Context", old_line_num |-> Some(old_line_num),
     new_line_num |-> Some(new_line_num), content |-> DropFirst(line, 1)]

----------------------------------------------------------------------------
(* app.rs: parse_diff *)

DiffGitPrefix == <<"d", "i", "f", "f", " ", "-", "-", "g", "i", "t">>
HunkPrefix == <<"@", "@">>
PlusPlusPlus == <<"+", "+", "+">>
MinusMinusMinus == <<"-", "-", "-">>
BSlashPrefix == <<"b", "/">>

\* the locals of parse_diff before the loop
ParseStart ==
    [files |-> <<>>, current_file |-> None,
     old_line_num |-> U32(0), new_line_num |-> U32(0), panicked |-> FALSE]

\* the start of one counter from its field of the hunk header
HunkStart(info) == UnwrapOr(ParseU32(SplitFirst(info, ",")), U32(1))

\* the (old_info, new_info) pair of a hunk header line, an Option
HunkInfo(line) ==
    LET first == SplitOnce(line, " ")
    IN  IF ~IsSome(first) THEN None
        ELSE LET second == SplitOnce(Unwrap(first)[2], " ")
             IN  IF ~IsSome(second) THEN None
                 ELSE Some(<<TrimStartMatches(Unwrap(second)[1], <<"-">>),
                             TrimStartMatches(Unwrap(second)[2], <<"+">>)>>)

\* ParseFileHeader without the push of the file that is open
ParseFileHeader_mut(st, line) ==
    LET parts == SplitWhitespace(line)
    IN  [st EXCEPT
            !.current_file =
                IF Len(parts) >= 4
                THEN Some(DiffFileNew(TrimStartMatches(parts[4], BSlashPrefix)))
                ELSE None]

\* branch `line.starts_with("diff --git")`
ParseFileHeader(st, line) ==
    LET pushed == IF IsSome(st.current_file)
                  THEN Append(st.files, Unwrap(st.current_file))
                  ELSE st.files
        parts == SplitWhitespace(line)
    IN  [st EXCEPT
            !.files = pushed,
            !.current_file =
                IF Len(parts) >= 4
                THEN Some(DiffFileNew(TrimStartMatches(parts[4], BSlashPrefix)))
                ELSE None]

\* branch `line.starts_with("@@")`
ParseHunkHeader(st, line) ==
    IF ~IsSome(st.current_file) THEN st
    ELSE LET info == HunkInfo(line)
         IN  [st EXCEPT
                !.old_line_num = IF IsSome(info)
                                 THEN HunkStart(Unwrap(info)[1]) ELSE @,
                !.new_line_num = IF IsSome(info)
                                 THEN HunkStart(Unwrap(info)[2]) ELSE @,
                !.current_file =
                    Some(add_line(Unwrap(@), new_header(line)))]

\* branch `line.starts_with('+') && !line.starts_with("+++")`
ParseAdded(st, line, overflow_checks) ==
    IF ~IsSome(st.current_file) THEN st
    ELSE LET inc == AddAssignOne(st.new_line_num, overflow_checks)
         IN  [st EXCEPT
                !.current_file =
                    Some(add_line(Unwrap(@), new_added(line, st.new_line_num))),
                !.new_line_num = inc.value,
                !.panicked = inc.panic]

\* branch `line.starts_with('-') && !line.starts_with("---")`
ParseRemoved(st, line, overflow_checks) ==
    IF ~IsSome(st.current_file) THEN st
    ELSE LET inc == AddAssignOne(st.old_line_num, overflow_checks)
         IN  [st EXCEPT
                !.current_file =
                    Some(add_line(Unwrap(@), new_removed(line, st.old_line_num))),
                !.old_line_num = inc.value,
                !.panicked = inc.panic]

\* branch `line.starts_with(' ') && let Some(ref mut file) = current_file`
ParseContext(st, line, overflow_checks) ==
    LET incOld == AddAssignOne(st.old_line_num, overflow_checks)
        incNew == AddAssignOne(st.new_line_num, overflow_checks)
    IN  [st EXCEPT
            !.current_file =
                Some(add_line(Unwrap(@),
                     new_context(line, st.old_line_num, st.new_line_num))),
            !.old_line_num = incOld.value,
            !.new_line_num = IF incOld.panic THEN @ ELSE incNew.value,
            !.panicked = incOld.panic \/ incNew.panic]

\* one iteration of `for line in diff_text.lines()`
ParseLine(st, line, overflow_checks) ==
    IF StartsWith(line, DiffGitPrefix) THEN ParseFileHeader(st, line)
    ELSE IF StartsWith(line, HunkPrefix) THEN ParseHunkHeader(st, line)
    ELSE IF StartsWith(line, <<"+">>) /\ ~StartsWith(line, PlusPlusPlus)
    THEN ParseAdded(st, line, overflow_checks)
    ELSE IF StartsWith(line, <<"-">>) /\ ~StartsWith(line, MinusMinusMinus)
    THEN ParseRemoved(st, line, overflow_checks)
    ELSE IF StartsWith(line, <<" ">>) /\ IsSome(st.current_file)
    THEN ParseContext(st, line, overflow_checks)
    ELSE st

\* the loop; a panic unwinds out of it
RECURSIVE ParseLoop(_, _, _, _)
ParseLoop(st, lines, i, overflow_checks) ==
    IF st.panicked \/ i > Len(lines) THEN st
    ELSE ParseLoop(ParseLine(st, lines[i], overflow_checks), lines, i + 1,
                   overflow_checks)

\* parse_diff: the files it returns, or a panic
parse_diff(text, overflow_checks) ==
    LET st == ParseLoop(ParseStart, Lines(text), 1, overflow_checks)
    IN  IF st.panicked
        THEN [status |-> "panicked", files |-> <<>>]
        ELSE [status |-> "returned",
              files |-> IF IsSome(st.current_file)
                        THEN Append(st.files, Unwrap(st.current_file))
                        ELSE st.files]

----------------------------------------------------------------------------
(* Diff texts given to the parser *)

LineHeaderT == <<"d", "i", "f", "f", " ", "-", "-", "g", "i", "t", " ", "a", "/", "t", " ", "b", "/", "t">>
LineHeaderX == <<"d", "i", "f", "f", " ", "-", "-", "g", "i", "t", " ", "x", " ", "x">>
LineHeaderShort == <<"d", "i", "f", "f", " ", "-", "-", "g", "i", "t", " ", "a", "/", "t">>
LineHunk12 == <<"@", "@", " ", "-", "1", ",", "2", " ", "+", "1", ",", "2", " ", "@", "@">>
LineHunkMax == <<"@", "@", " ", "-", "4", "2", "9", "4", "9", "6", "7", "2", "9", "5", ",", "1", " ", "+", "4", "2", "9", "4", "9", "6", "7", "2", "9", "4", ",", "2", " ", "@", "@">>
LineHunkNoComma == <<"@", "@", " ", "-", "3", " ", "+", "7", " ", "@", "@">>
LineHunkBare == <<"@", "@">>
LineHunkAlpha == <<"@", "@", " ", "-", "x", ",", "1", " ", "+", "y", ",", "1", " ", "@", "@">>
LineRemoved == <<"-", "o", "l", "d">>
LineAdded == <<"+", "n", "e", "w">>
LineContext == <<" ", "c", "o", "n", "t", "e", "x", "t">>
LinePlusFile == <<"+", "+", "+", " ", "b", "/", "t">>
LineMinusFile == <<"-", "-", "-", " ", "a", "/", "t">>
LineIndex == <<"i", "n", "d", "e", "x", " ", "1">>
LineHeaderDirB == <<"d", "i", "f", "f", " ", "-", "-", "g", "i", "t", " ", "a", "/", "b", "/", "t", " ", "b", "/", "b", "/", "t">>
LineHeaderTxt == <<"d", "i", "f", "f", " ", "-", "-", "g", "i", "t", " ", "a", "/", "t", ".", "t", "x", "t", " ", "b", "/", "t", ".", "t", "x", "t">>

\* the lines the enumerated texts are made of: one or more for every branch
\* of the loop of parse_diff
InputLines ==
    {LineHeaderT, LineHeaderX, LineHeaderShort,
     LineHunk12, LineHunkMax, LineHunkNoComma, LineHunkBare, LineHunkAlpha,
     LineRemoved, LineAdded, LineContext,
     LinePlusFile}

\* the text whose lines are ls, every line ended by "\n"
RECURSIVE JoinLines(_)
JoinLines(ls) ==
    IF ls = <<>> THEN <<>>
    ELSE Head(ls) \o <<"\n">> \o JoinLines(Tail(ls))

\* the sample diff of the specification:
\* "diff --git a/t.txt b/t.txt\n@@ -1,2 +1,2 @@\n-old\n+new\n context\n"
SampleDiff ==
    JoinLines(<<LineHeaderTxt, LineHunk12, LineRemoved, LineAdded, LineContext>>)

\* a diff as git prints it, with the index, `---` and `+++` lines
GitStyleDiff ==
    JoinLines(<<LineHeaderT, LineIndex, LineMinusFile, LinePlusFile,
                LineHunk12, LineRemoved, LineAdded, LineContext>>)

LineSeqs == UNION {[1..n -> InputLines] : n \in 0..MaxTextLines}

\* a diff of the file t in the directory b
DirBDiff == JoinLines(<<LineHeaderDirB, LineHunk12, LineRemoved, LineAdded>>)

DiffTexts ==
    {JoinLines(ls) : ls \in LineSeqs} \cup {SampleDiff, GitStyleDiff, DirBDiff}

Pending == [status |-> "pending", files |-> <<>>]

----------------------------------------------------------------------------
(* Diffs loaded into the App: the output of `git diff --no-prefix` *)

\* lines scrolled by one PageDown / PageUp key
PageStep == 10

\* the header of the i-th file of a diff: "diff --git f<i> f<i>"
GitHeader(i) ==
    DiffGitPrefix \o <<" ", "f", Digits[i + 1], " ", "f", Digits[i + 1]>>

BodyCycle == <<LineRemoved, LineAdded, LineContext>>

\* the block of a file that yields n lines: none for a header alone (a mode
\* change), else a hunk header and n - 1 body lines
GitFileBlock(i, n) ==
    <<GitHeader(i), LineIndex>> \o
    (IF n = 0 THEN <<>>
     ELSE <<LineHunk12>> \o [k \in 1..(n - 1) |-> BodyCycle[((k - 1) % 3) + 1]])

RECURSIVE GitOutputLines(_, _)
GitOutputLines(counts, i) ==
    IF i > Len(counts) THEN <<>>
    ELSE GitFileBlock(i, counts[i]) \o GitOutputLines(counts, i + 1)

LineCounts == UNION {[1..n -> 0..MaxFileLines] : n \in 0..MaxFiles}

\* a diff with a file longer than one PageDown scrolls
LongDiffCounts == <<1, PageStep + 2, 0>>

GitOutputs ==
    {JoinLines(GitOutputLines(counts, 1)) : counts \in LineCounts}
        \cup {JoinLines(GitOutputLines(LongDiffCounts, 1))}

\* what parse_diff makes of each output (git prints no hunk start near 2^32)
ParsedGitOutputs == {parse_diff(text, TRUE).files : text \in GitOutputs}

----------------------------------------------------------------------------
(* app.rs: App *)

\* the least terminal width at which toggle_view_mode enters side-by-side
MinSideBySideWidth == 120

\* terminal widths reported by terminal.size()
Widths == {80, 119, 120, 149, 150, 200}

\* the App as a value
App ==
    [files |-> files, selected_file |-> selected_file,
     file_list_state |-> file_list_state, scroll_offset |-> scroll_offset,
     show_side_by_side |-> show_side_by_side, show_shortcuts |-> show_shortcuts]

\* the App after a method has run on it
SetApp(a) ==
    /\ files' = a.files
    /\ selected_file' = a.selected_file
    /\ file_list_state' = a.file_list_state
    /\ scroll_offset' = a.scroll_offset
    /\ show_side_by_side' = a.show_side_by_side
    /\ show_shortcuts' = a.show_shortcuts

\* the App is the value a
IsApp(a) ==
    /\ files = a.files
    /\ selected_file = a.selected_file
    /\ file_list_state = a.file_list_state
    /\ scroll_offset = a.scroll_offset
    /\ show_side_by_side = a.show_side_by_side
    /\ show_shortcuts = a.show_shortcuts

\* App::new
AppNew(sbs) ==
    [files |-> <<>>, selected_file |-> 0, file_list_state |-> Some(0),
     scroll_offset |-> 0, show_side_by_side |-> sbs, show_shortcuts |-> TRUE]

\* Vec::get with a 0-based index
Get(v, i) == IF i < Len(v) THEN Some(v[i + 1]) ELSE None

\* App::load_diff, given the files parse_diff made of the output of git
load_diff(a, parsedFiles) ==
    [a EXCEPT
        !.files = parsedFiles,
        !.file_list_state = IF parsedFiles /= <<>> THEN Some(0) ELSE @]

\* next_file without the reset of scroll_offset
next_file_mut(a) ==
    IF a.files /= <<>>
    THEN LET sel == (a.selected_file + 1) % Len(a.files)
         IN  [a EXCEPT !.selected_file = sel,
                       !.file_list_state = Some(sel)]
    ELSE a

\* App::next_file
next_file(a) ==
    IF a.files /= <<>>
    THEN LET sel == (a.selected_file + 1) % Len(a.files)
         IN  [a EXCEPT !.selected_file = sel,
                       !.file_list_state = Some(sel),
                       !.scroll_offset = 0]
    ELSE a

\* App::previous_file
previous_file(a) ==
    IF a.files /= <<>>
    THEN LET sel == IF a.selected_file = 0
                    THEN Len(a.files) - 1
                    ELSE a.selected_file - 1
         IN  [a EXCEPT !.selected_file = sel,
                       !.file_list_state = Some(sel),
                       !.scroll_offset = 0]
    ELSE a

\* scroll_down with the bound off by one
scroll_down_mut(a) ==
    LET file == Get(a.files, a.selected_file)
    IN  IF IsSome(file) /\ a.scroll_offset < line_count(Unwrap(file))
        THEN [a EXCEPT !.scroll_offset = @ + 1]
        ELSE a

\* App::scroll_down
scroll_down(a) ==
    LET file == Get(a.files, a.selected_file)
    IN  IF IsSome(file) /\ a.scroll_offset + 1 < line_count(Unwrap(file))
        THEN [a EXCEPT !.scroll_offset = @ + 1]
        ELSE a

\* App::scroll_up
scroll_up(a) ==
    IF a.scroll_offset > 0 THEN [a EXCEPT !.scroll_offset = @ - 1] ELSE a

\* toggle_view_mode with `||` for `&&`
toggle_view_mode_mut(a, width) ==
    [a EXCEPT !.show_side_by_side =
                  width >= MinSideBySideWidth \/ ~a.show_side_by_side]

\* App::toggle_view_mode
toggle_view_mode(a, width) ==
    [a EXCEPT !.show_side_by_side =
                  width >= MinSideBySideWidth /\ ~a.show_side_by_side]

\* App::toggle_shortcuts
toggle_shortcuts(a) == [a EXCEPT !.show_shortcuts = ~@]

----------------------------------------------------------------------------
(* main.rs: the key dispatch of run_app *)

RECURSIVE scroll_down_times(_, _)
scroll_down_times(a, n) ==
    IF n = 0 THEN a ELSE scroll_down_times(scroll_down(a), n - 1)

RECURSIVE scroll_up_times(_, _)
scroll_up_times(a, n) ==
    IF n = 0 THEN a ELSE scroll_up_times(scroll_up(a), n - 1)

\* usize::saturating_sub
SaturatingSub(a, b) == IF a >= b THEN a - b ELSE 0

\* KeyCode::Char('g')
scroll_top(a) == [a EXCEPT !.scroll_offset = 0]

\* KeyCode::Char('G')
scroll_bottom(a) ==
    LET file == Get(a.files, a.selected_file)
    IN  IF IsSome(file)
        THEN [a EXCEPT !.scroll_offset =
                           SaturatingSub(Len(Unwrap(file).lines), 1)]
        ELSE a

----------------------------------------------------------------------------
(* ui/unified_diff.rs and ui/side_by_side_diff.rs: the loops over the window *)

\* most lines of a file handed to a renderer
MaxViewLines == 4
\* greatest height of the area handed to a renderer
MaxHeight == 6

Min(a, b) == IF a <= b THEN a ELSE b

\* `(area.height - 2) as usize` on a u16 height: below 2 the subtraction
\* panics with overflow checks and wraps modulo 2^16 without them
VisibleLines(height, overflow_checks) ==
    IF height >= 2
    THEN [panic |-> FALSE, value |-> height - 2]
    ELSE [panic |-> overflow_checks, value |-> Limb + height - 2]

\* (scroll_offset + visible_lines).min(file.line_count())
EndLine(file, offset, visible_lines) ==
    Min(offset + visible_lines, line_count(file))

\* file.lines[i], with the 0-based index of the code
LineAt(file, i) == file.lines[i + 1]

\* the decisions of a loop: the lines at index and index + 1 rendered as a
\* pair with their intra-line diff, or the line at index rendered alone
Pair(i) == [kind |-> "Pair", index |-> i]
Single(i) == [kind |-> "Single", index |-> i]

\* what is pushed for a row: render_diff_line of the line at index, with or
\* without intra-line highlight; a blank filler; the bare header line of the
\* side-by-side view
RenderedLine(i, intra) == [cell |-> "line", index |-> i, intra |-> intra]
Filler == [cell |-> "filler", index |-> 0, intra |-> FALSE]
HeaderLine(i) == [cell |-> "header", index |-> i, intra |-> FALSE]

\* the test of render_unified_diff without `i + 1 < end_line`
UnifiedPairs_mut(file, i, end_line) ==
    /\ LineAt(file, i).line_type = "Removed"
    /\ i + 1 < line_count(file)
    /\ LineAt(file, i + 1).line_type = "Added"

\* render_unified_diff: the test for an intra-line diff opportunity
UnifiedPairs(file, i, end_line) ==
    /\ LineAt(file, i).line_type = "Removed"
    /\ i + 1 < line_count(file)
    /\ LineAt(file, i + 1).line_type = "Added"
    /\ i + 1 < end_line

\* render_unified_diff: `while i < end_line`
RECURSIVE UnifiedLoop(_, _, _, _)
UnifiedLoop(file, i, end_line, out) ==
    IF ~(i < end_line) THEN out
    ELSE IF UnifiedPairs(file, i, end_line)
    THEN UnifiedLoop(file, i + 2, end_line,
             [units |-> Append(out.units, Pair(i)),
              lines |-> out.lines \o <<RenderedLine(i, TRUE),
                                       RenderedLine(i + 1, TRUE)>>])
    ELSE UnifiedLoop(file, i + 1, end_line,
             [units |-> Append(out.units, Single(i)),
              lines |-> Append(out.lines, RenderedLine(i, FALSE))])

\* render_unified_diff: the units decided and the lines of the paragraph
render_unified_diff(height, file, offset, overflow_checks) ==
    LET visible_lines == VisibleLines(height, overflow_checks)
    IN  IF visible_lines.panic
        THEN [status |-> "panicked", units |-> <<>>, lines |-> <<>>]
        ELSE LET out == UnifiedLoop(file, offset,
                            EndLine(file, offset, visible_lines.value),
                            [units |-> <<>>, lines |-> <<>>])
             IN  [status |-> "drawn", units |-> out.units, lines |-> out.lines]

\* the test of render_side_by_side_diff without `i + 1 < end_line`
SideBySidePairs_mut(file, i, end_line) ==
    IF LineAt(file, i).line_type = "Removed" /\ i + 1 < line_count(file)
    THEN LineAt(file, i + 1).line_type = "Added"
    ELSE FALSE

\* render_side_by_side_diff: the test for an intra-line diff opportunity
SideBySidePairs(file, i, end_line) ==
    IF LineAt(file, i).line_type = "Removed" /\ i + 1 < line_count(file)
    THEN IF LineAt(file, i + 1).line_type = "Added"
         THEN i + 1 < end_line
         ELSE FALSE
    ELSE FALSE

\* the match whose Removed arm pushes no filler row to the new column
SideBySideSingle_mut(file, i, out) ==
    LET kind == LineAt(file, i).line_type
    IN  [units |-> Append(out.units, Single(i)),
         old_lines |-> Append(out.old_lines,
                              CASE kind = "Context" -> RenderedLine(i, FALSE)
                                [] kind = "Removed" -> RenderedLine(i, FALSE)
                                [] kind = "Added" -> Filler
                                [] kind = "Header" -> HeaderLine(i)),
         new_lines |-> IF kind = "Removed" THEN out.new_lines
                       ELSE Append(out.new_lines,
                              CASE kind = "Context" -> RenderedLine(i, FALSE)
                                [] kind = "Added" -> RenderedLine(i, FALSE)
                                [] kind = "Header" -> HeaderLine(i))]

\* render_side_by_side_diff: `match diff_line.line_type` for a line alone
SideBySideSingle(file, i, out) ==
    LET kind == LineAt(file, i).line_type
    IN  [units |-> Append(out.units, Single(i)),
         old_lines |-> Append(out.old_lines,
                              CASE kind = "Context" -> RenderedLine(i, FALSE)
                                [] kind = "Removed" -> RenderedLine(i, FALSE)
                                [] kind = "Added" -> Filler
                                [] kind = "Header" -> HeaderLine(i)),
         new_lines |-> Append(out.new_lines,
                              CASE kind = "Context" -> RenderedLine(i, FALSE)
                                [] kind = "Removed" -> Filler
                                [] kind = "Added" -> RenderedLine(i, FALSE)
                                [] kind = "Header" -> HeaderLine(i))]

\* render_side_by_side_diff: `while i < end_line`
RECURSIVE SideBySideLoop(_, _, _, _)
SideBySideLoop(file, i, end_line, out) ==
    IF ~(i < end_line) THEN out
    ELSE IF SideBySidePairs(file, i, end_line)
    THEN SideBySideLoop(file, i + 2, end_line,
             [units |-> Append(out.units, Pair(i)),
              old_lines |-> Append(out.old_lines, RenderedLine(i, TRUE)),
              new_lines |-> Append(out.new_lines, RenderedLine(i + 1, TRUE))])
    ELSE SideBySideLoop(file, i + 1, end_line, SideBySideSingle(file, i, out))

\* render_side_by_side_diff: the units decided and the lines of both panels
render_side_by_side_diff(height, file, offset, overflow_checks) ==
    LET visible_lines == VisibleLines(height, overflow_checks)
    IN  IF visible_lines.panic
        THEN [status |-> "panicked", units |-> <<>>,
              old_lines |-> <<>>, new_lines |-> <<>>]
        ELSE LET out == SideBySideLoop(file, offset,
                            EndLine(file, offset, visible_lines.value),
                            [units |-> <<>>, old_lines |-> <<>>,
                             new_lines |-> <<>>])
             IN  [status |-> "drawn", units |-> out.units,
                  old_lines |-> out.old_lines, new_lines |-> out.new_lines]

\* a line of each kind, as the parser builds it
ViewLine(kind) ==
    CASE kind = "Header" -> new_header(LineHunk12)
      [] kind = "Removed" -> new_removed(LineRemoved, U32(1))
      [] kind = "Added" -> new_added(LineAdded, U32(1))
      [] kind = "Context" -> new_context(LineContext, U32(1), U32(1))

\* the file whose lines have the given kinds
ViewFile(kinds) ==
    [name |-> <<"t">>, status |-> "M",
     lines |-> [i \in 1..Len(kinds) |-> ViewLine(kinds[i])]]

ViewFiles ==
    {ViewFile(kinds) : kinds \in UNION {[1..n -> LineTypes] : n \in 0..MaxViewLines}}

\* the calls of a renderer: a file, a scroll offset up to one past its end,
\* the height of the area, and the build
Views ==
    {v \in [file : ViewFiles, scroll_offset : 0..(MaxViewLines + 1),
            height : 0..MaxHeight, overflow_checks : BOOLEAN] :
        v.scroll_offset <= line_count(v.file) + 1}

NoView == [file |-> DiffFileNew(<<>>), scroll_offset |-> 0, height |-> 0,
           overflow_checks |-> FALSE]
NotDrawn == [status |-> "pending"]

----------------------------------------------------------------------------
(* ui/diff_utils.rs: compute_intra_line_diff *)

\* longest enumerated line content, in characters
MaxLineLen == 3

\* characters whose UTF-8 encoding takes two bytes
TwoByteChars == {"é"}

\* str::len of the text of one character
Utf8Len(c) == IF c \in TwoByteChars THEN 2 ELSE 1

\* str::len
RECURSIVE ByteLen(_)
ByteLen(s) == IF s = <<>> THEN 0 ELSE Utf8Len(Head(s)) + ByteLen(Tail(s))

Change(tag, value) == [tag |-> tag, value |-> value]

Abs(n) == IF n >= 0 THEN n ELSE 0 - n

\* the edit scripts from old[i..] to new[j..] with at most budget deletions
\* and insertions, one change per character
RECURSIVE ScriptsWithin(_, _, _, _, _)
ScriptsWithin(old, new, i, j, budget) ==
    LET restOld == Len(old) - i + 1
        restNew == Len(new) - j + 1
    IN  IF Abs(restOld - restNew) > budget THEN {}
        ELSE IF restOld = 0 /\ restNew = 0 THEN {<<>>}
        ELSE (IF restOld > 0 /\ restNew > 0 /\ old[i] = new[j]
              THEN {<<Change("Equal", old[i])>> \o s :
                        s \in ScriptsWithin(old, new, i + 1, j + 1, budget)}
              ELSE {})
             \cup
             (IF restOld > 0 /\ budget > 0
              THEN {<<Change("Delete", old[i])>> \o s :
                        s \in ScriptsWithin(old, new, i + 1, j, budget - 1)}
              ELSE {})
             \cup
             (IF restNew > 0 /\ budget > 0
              THEN {<<Change("Insert", new[j])>> \o s :
                        s \in ScriptsWithin(old, new, i, j + 1, budget - 1)}
              ELSE {})

RECURSIVE ShortestScripts(_, _, _)
ShortestScripts(old, new, budget) ==
    LET scripts == ScriptsWithin(old, new, 1, 1, budget)
    IN  IF scripts /= {} THEN scripts
        ELSE ShortestScripts(old, new, budget + 1)

\* an edit script that may be two changes longer than the lengths require
diff_chars_mut(old, new) ==
    ShortestScripts(old, new, Abs(Len(old) - Len(new)) + 2)

\* TextDiff::configure().algorithm(Algorithm::Myers).diff_chars(old, new)
\* .iter_all_changes(): a shortest edit script over the characters; which of
\* the shortest scripts is the choice of the `similar` crate
diff_chars(old, new) == ShortestScripts(old, new, Abs(Len(old) - Len(new)))

Range(start, end) == [start |-> start, end |-> end]

\* the ranges after a Delete or Insert whose range is never merged
PushRange_mut(ranges, range) == Append(ranges, range)

\* `if last.end == range.start { last.end = range.end } else { push }`
PushRange(ranges, range) ==
    IF ranges /= <<>> /\ ranges[Len(ranges)].end = range.start
    THEN [ranges EXCEPT ![Len(ranges)].end = range.end]
    ELSE Append(ranges, range)

\* the iteration whose Equal arm leaves out `new_idx += len`
ApplyChange_mut(st, change) ==
    LET len == Utf8Len(change.value)
    IN  CASE change.tag = "Equal" ->
                 [st EXCEPT !.old_idx = @ + len]
          [] change.tag = "Delete" ->
                 [st EXCEPT
                     !.old_ranges =
                         PushRange(@, Range(st.old_idx, st.old_idx + len)),
                     !.old_idx = @ + len]
          [] change.tag = "Insert" ->
                 [st EXCEPT
                     !.new_ranges =
                         PushRange(@, Range(st.new_idx, st.new_idx + len)),
                     !.new_idx = @ + len]

\* compute_intra_line_diff: one iteration of `for change in ...`
ApplyChange(st, change) ==
    LET len == Utf8Len(change.value)
    IN  CASE change.tag = "Equal" ->
                 [st EXCEPT !.old_idx = @ + len, !.new_idx = @ + len]
          [] change.tag = "Delete" ->
                 [st EXCEPT
                     !.old_ranges =
                         PushRange(@, Range(st.old_idx, st.old_idx + len)),
                     !.old_idx = @ + len]
          [] change.tag = "Insert" ->
                 [st EXCEPT
                     !.new_ranges =
                         PushRange(@, Range(st.new_idx, st.new_idx + len)),
                     !.new_idx = @ + len]

RECURSIVE ChangesLoop(_, _, _)
ChangesLoop(st, changes, k) ==
    IF k > Len(changes) THEN st
    ELSE ChangesLoop(ApplyChange(st, changes[k]), changes, k + 1)

\* compute_intra_line_diff, given the changes of the diff of its arguments
compute_intra_line_diff(changes) ==
    LET st == ChangesLoop([old_ranges |-> <<>>, new_ranges |-> <<>>,
                           old_idx |-> 0, new_idx |-> 0], changes, 1)
    IN  [status |-> "returned",
         old_ranges |-> st.old_ranges, new_ranges |-> st.new_ranges]

\* characters of the enumerated line contents
LineChars == {"a", "b", "é"}

TextAbc123 == <<"a", "b", "c", " ", "1", "2", "3", " ", "x", "y", "z">>
TextAbc456 == <<"a", "b", "c", " ", "4", "5", "6", " ", "x", "y", "z">>
TextFooBar == <<"f", "o", "o", " ", "b", "a", "r", " ", "b", "a", "z">>
TextFooQux == <<"f", "o", "o", " ", "q", "u", "x", " ", "b", "a", "z">>

LineTexts == UNION {[1..n -> LineChars] : n \in 0..MaxLineLen}

\* the pairs of lines compared: all short ones and the pairs of the tests
TextPairs ==
    (LineTexts \X LineTexts)
        \cup {<<TextAbc123, TextAbc456>>, <<TextFooBar, TextFooQux>>}

NotComputed == [status |-> "pending", old_ranges |-> <<>>, new_ranges |-> <<>>]

NoLine == new_header(<<>>)

\* no line is being rendered
LineIdle ==
    /\ spans = <<>>
    /\ diff_ranges = <<>>
    /\ highlighted = NotDrawn
    /\ diff_line = NoLine
    /\ rendered_line = NotDrawn

\* no renderer and no intra-line diff is running, no frame is drawn
UiIdle ==
    /\ view = NoView
    /\ unified = NotDrawn
    /\ side_by_side = NotDrawn
    /\ old_text = <<>>
    /\ new_text = <<>>
    /\ intra_line_diff = NotComputed
    /\ LineIdle
    /\ frame = NotDrawn

----------------------------------------------------------------------------
(* ui/diff_utils.rs: apply_diff_highlight *)

\* most spans handed to apply_diff_highlight
MaxSpans == 2
\* most ranges handed to apply_diff_highlight
MaxRanges == 2
\* greatest byte offset of a range handed to apply_diff_highlight
MaxOffset == 4

\* ratatui Style: foreground, background and modifiers
Style(fg, bg, modifier) == [fg |-> fg, bg |-> bg, modifier |-> modifier]

\* Style::bg
Bg(style, color) == [style EXCEPT !.bg = color]

\* Span::styled
Span(content, style) == [content |-> content, style |-> style]

\* str::is_char_boundary
IsCharBoundary(content, index) ==
    \E k \in 0..Len(content) : ByteLen(SubSeq(content, 1, k)) = index

\* the characters of content from byte offset a up to byte offset b
CharsBetween(content, a, b) ==
    LET first == CHOOSE k \in 0..Len(content) :
                     ByteLen(SubSeq(content, 1, k)) = a
        last == CHOOSE k \in 0..Len(content) :
                    ByteLen(SubSeq(content, 1, k)) = b
    IN  SubSeq(content, first + 1, last)

\* `&content[a..b]`: None where the slice panics, which it does when an end
\* is no character boundary or lies outside the content
StrSlice(content, a, b) ==
    IF a <= b /\ IsCharBoundary(content, a) /\ IsCharBoundary(content, b)
    THEN Some(CharsBetween(content, a, b))
    ELSE None

\* new_spans.push(Span::styled(sub_content.to_string(), style.bg(bg))), or
\* the panic of the slice; origin records the span the slice is taken from
PushSlice(st, slice, style, bg, from) ==
    IF IsSome(slice)
    THEN [st EXCEPT !.new_spans = Append(@, Span(Unwrap(slice), Bg(style, bg))),
                    !.origin = Append(@, from)]
    ELSE [st EXCEPT !.panic = TRUE]

\* the highlighted part pushed with the base background
PushHighlighted_mut(st, content, style, a, b, base_bg, highlight_bg, from) ==
    PushSlice(st, StrSlice(content, a, b), style, base_bg, from)

\* apply_diff_highlight: "Add highlighted part"
PushHighlighted(st, content, style, a, b, base_bg, highlight_bg, from) ==
    PushSlice(st, StrSlice(content, a, b), style, highlight_bg, from)

\* apply_diff_highlight: `for range in diff_ranges` for the span numbered
\* from, which starts at current_idx
RECURSIVE RangesLoop(_, _, _, _, _, _, _, _)
RangesLoop(st, span, current_idx, ranges, k, base_bg, highlight_bg, from) ==
    IF k > Len(ranges) \/ st.panic THEN st
    ELSE LET range == ranges[k]
             span_end == current_idx + ByteLen(span.content)
         IN  IF range.end <= current_idx
             THEN RangesLoop(st, span, current_idx, ranges, k + 1,
                             base_bg, highlight_bg, from)
             ELSE IF range.start >= span_end
             THEN st
             ELSE LET overlap_start == Max(range.start, current_idx)
                      overlap_end == Min(range.end, span_end)
                      before ==
                          IF overlap_start > st.last_processed
                          THEN PushSlice(st,
                                   StrSlice(span.content,
                                            st.last_processed - current_idx,
                                            overlap_start - current_idx),
                                   span.style, base_bg, from)
                          ELSE st
                      marked ==
                          IF before.panic THEN before
                          ELSE PushHighlighted(before, span.content,
                                   span.style, overlap_start - current_idx,
                                   overlap_end - current_idx,
                                   base_bg, highlight_bg, from)
                  IN  RangesLoop([marked EXCEPT !.last_processed = overlap_end],
                                 span, current_idx, ranges, k + 1,
                                 base_bg, highlight_bg, from)

\* the rest of the span is never pushed
RemainingPart_mut(st, span, current_idx, base_bg, from) == st

\* apply_diff_highlight: "Add remaining part of the span"
RemainingPart(st, span, current_idx, base_bg, from) ==
    IF ~st.panic /\ st.last_processed < current_idx + ByteLen(span.content)
    THEN PushSlice(st,
             StrSlice(span.content, st.last_processed - current_idx,
                      ByteLen(span.content)),
             span.style, base_bg, from)
    ELSE st

\* apply_diff_highlight: `for span in spans`; cursors holds current_idx
\* after each span
RECURSIVE SpansLoop(_, _, _, _, _, _)
SpansLoop(st, spans_, from, ranges, base_bg, highlight_bg) ==
    IF from > Len(spans_) \/ st.panic THEN st
    ELSE LET span == spans_[from]
             current_idx == st.current_idx
             ranged == RangesLoop([st EXCEPT !.last_processed = current_idx],
                                  span, current_idx, ranges, 1,
                                  base_bg, highlight_bg, from)
             done == RemainingPart(ranged, span, current_idx, base_bg, from)
         IN  IF done.panic THEN done
             ELSE SpansLoop([done EXCEPT
                                !.current_idx = @ + ByteLen(span.content),
                                !.cursors =
                                    Append(@, current_idx
                                                  + ByteLen(span.content))],
                            spans_, from + 1, ranges, base_bg, highlight_bg)

\* the loop over the spans, from the first one
HighlightLoop(spans_, ranges, base_bg, highlight_bg) ==
    LET st == SpansLoop([new_spans |-> <<>>, origin |-> <<>>,
                         cursors |-> <<>>, current_idx |-> 0,
                         last_processed |-> 0, panic |-> FALSE],
                        spans_, 1, ranges, base_bg, highlight_bg)
    IN  IF st.panic
        THEN [status |-> "panicked", spans |-> <<>>, origin |-> <<>>,
              cursors |-> st.cursors]
        ELSE [status |-> "returned", spans |-> st.new_spans,
              origin |-> st.origin, cursors |-> st.cursors]

\* apply_diff_highlight without the return for an empty diff_ranges
apply_diff_highlight_mut(spans_, ranges, base_bg, highlight_bg) ==
    HighlightLoop(spans_, ranges, base_bg, highlight_bg)

\* apply_diff_highlight
apply_diff_highlight(spans_, ranges, base_bg, highlight_bg) ==
    IF ranges = <<>>
    THEN [status |-> "returned",
          spans |-> [k \in 1..Len(spans_) |->
                        Span(spans_[k].content, Bg(spans_[k].style, base_bg))],
          origin |-> [k \in 1..Len(spans_) |-> k],
          cursors |-> <<>>]
    ELSE HighlightLoop(spans_, ranges, base_bg, highlight_bg)

\* Color::Rgb(139, 0, 0) and Color::Rgb(80, 0, 0), the backgrounds of a
\* removed line
BaseBg == "Rgb(139,0,0)"
HighlightBg == "Rgb(80,0,0)"

\* the style of Span::raw, a style of the syntax highlighter, and a style
\* that has a background already
RawStyle == Style("none", "none", "none")
Styles == {RawStyle, Style("Rgb(192,197,206)", "none", "BOLD"),
           Style("White", "Blue", "none")}

SpanContents == {<<>>, <<"a">>, <<"é">>, <<"a", "é">>}

SpanValues == {Span(c, st) : c \in SpanContents, st \in Styles}

\* the sequences of spans handed to apply_diff_highlight
SpanSeqs == UNION {[1..n -> SpanValues] : n \in 0..MaxSpans}

\* the ranges with start <= end, the empty ones included
RangeValues ==
    {r \in [start : 0..MaxOffset, end : 0..MaxOffset] : r.start <= r.end}

\* the sorted sequences of ranges that do not overlap
RangeSeqs ==
    {rs \in UNION {[1..n -> RangeValues] : n \in 0..MaxRanges} :
        \A k \in 1..(Len(rs) - 1) :
            /\ rs[k].end <= rs[k + 1].start
            /\ rs[k].start < rs[k + 1].start}

----------------------------------------------------------------------------
(* ui/unified_diff.rs and ui/side_by_side_diff.rs: render_diff_line *)

\* a u32 divided by ten: quotient and remainder, limb by limb
DivTen(x) ==
    LET t == (x.hi % 10) * Limb + x.lo
    IN  [q |-> [hi |-> x.hi \div 10, lo |-> t \div 10], r |-> t % 10]

\* Display for u32: the decimal digits
RECURSIVE Display(_)
Display(x) ==
    IF U32Less(x, U32(10)) THEN <<Digits[x.lo + 1]>>
    ELSE Append(Display(DivTen(x).q), Digits[DivTen(x).r + 1])

Blanks(n) == [k \in 1..n |-> " "]

\* `{:4}`: right-aligned in 4 columns, wider when the digits need it
Format4(x) == Blanks(4 - Len(Display(x))) \o Display(x)

\* render_diff_line: `let line_num_text = match (old_line_num, new_line_num)`
LineNumText(old_line_num, new_line_num) ==
    CASE IsSome(old_line_num) /\ IsSome(new_line_num) ->
             Format4(Unwrap(old_line_num)) \o <<":">>
                 \o Format4(Unwrap(new_line_num)) \o <<" ">>
      [] IsSome(old_line_num) /\ ~IsSome(new_line_num) ->
             Format4(Unwrap(old_line_num)) \o <<":">> \o Blanks(5)
      [] ~IsSome(old_line_num) /\ IsSome(new_line_num) ->
             Blanks(5) \o Format4(Unwrap(new_line_num)) \o <<" ">>
      [] OTHER -> Blanks(9)

\* render_diff_line: `let (bg_color, prefix) = match diff_line.line_type`
BgColor(line_type) ==
    CASE line_type = "Added" -> Some("Rgb(0,100,0)")
      [] line_type = "Removed" -> Some("Rgb(139,0,0)")
      [] line_type = "Context" -> None
      [] line_type = "Header" -> Some("Blue")

Prefix(line_type) ==
    CASE line_type = "Added" -> <<"+", " ">>
      [] line_type = "Removed" -> <<"-", " ">>
      [] line_type = "Context" -> <<" ", " ">>
      [] line_type = "Header" -> <<"@", " ">>

\* render_diff_line: the spans of the content of a line that is no Header,
\* given the spans of the syntax highlighter
ContentSpans(line_type, highlighted_spans, intra_line_highlight) ==
    IF IsSome(intra_line_highlight)
    THEN LET h == Unwrap(intra_line_highlight)
         IN  apply_diff_highlight(highlighted_spans, h.ranges,
                                  h.base_bg, h.highlight_bg)
    ELSE [status |-> "returned",
          spans |-> IF IsSome(BgColor(line_type))
                    THEN [k \in 1..Len(highlighted_spans) |->
                             Span(highlighted_spans[k].content,
                                  Bg(highlighted_spans[k].style,
                                     Unwrap(BgColor(line_type))))]
                    ELSE highlighted_spans]

\* render_diff_line, given the outcome of highlight_line_content
render_diff_line(line_, highlighted_spans, intra_line_highlight) ==
    LET number == Span(LineNumText(line_.old_line_num, line_.new_line_num),
                       Style("DarkGray", "none", "none"))
        prefix == Span(Prefix(line_.line_type),
                       Style("White",
                             UnwrapOr(BgColor(line_.line_type), "none"),
                             "none"))
        content == ContentSpans(line_.line_type, highlighted_spans,
                                intra_line_highlight)
    IN  IF line_.line_type = "Header"
        THEN [status |-> "drawn",
              spans |-> <<number, prefix,
                          Span(line_.content, Style("White", "Blue", "BOLD"))>>]
        ELSE IF content.status = "panicked"
        THEN [status |-> "panicked", spans |-> <<>>]
        ELSE [status |-> "drawn", spans |-> <<number, prefix>> \o content.spans]

\* highlight_line_content: one raw span when no syntax is found, else the
\* spans of the syntax highlighter, which cover the content without a gap
Highlightings(content) ==
    {<<Span(content, RawStyle)>>}
        \cup {<<Span(SubSeq(content, 1, k),
                     Style("Rgb(192,197,206)", "none", "none")),
                Span(SubSeq(content, k + 1, Len(content)),
                     Style("Rgb(180,142,173)", "none", "BOLD"))>> :
                 k \in 0..Len(content)}

\* the intra-line highlight of a call: none, or ranges with the backgrounds
IntraLineHighlights ==
    {None} \cup {Some([ranges |-> rs, base_bg |-> BaseBg,
                       highlight_bg |-> HighlightBg]) :
                    rs \in {<<>>, <<Range(0, 1)>>, <<Range(1, 3)>>}}

\* line numbers of one to ten digits
LineNumbers == {U32(1), U32(42), U32(999), U32(9999), U32(10000), U32Max}

LineAddedAe == <<"+", "a", "é">>
LineRemovedAb == <<"-", "a", "b">>
LineContextA == <<" ", "a">>

\* the lines handed to render_diff_line, as the parser builds them
RenderLines ==
    {new_header(LineHunk12)}
        \cup {new_added(LineAddedAe, n) : n \in LineNumbers}
        \cup {new_removed(LineRemovedAb, n) : n \in LineNumbers}
        \cup {new_context(LineContextA, n, m) : n \in LineNumbers,
                                                m \in LineNumbers}

----------------------------------------------------------------------------
(* ui/render_ui.rs: the layout of a frame *)

\* Constraint::Length(30): the columns of the file list
FileListWidth == 30
\* `diff_area.width >= 120`
MinSideBySideAreaWidth == 120

\* chunks[1].width of the split [Length(30), Min(0)] of an area of the given
\* width: what the file list leaves
DiffAreaWidth(width) == SaturatingSub(width, FileListWidth)

\* the frame with the test of the flag alone
ui_mut(a, width) ==
    LET file == Get(a.files, a.selected_file)
    IN  [status |-> "drawn",
         width |-> width,
         show_side_by_side |-> a.show_side_by_side,
         file_selected |-> IsSome(file),
         layout |-> IF IsSome(file)
                    THEN IF a.show_side_by_side
                         THEN "side_by_side"
                         ELSE "unified"
                    ELSE "none"]

\* ui: the frame drawn for the App on a terminal of the given width, with
\* the renderer called for the diff area (none when no file is selected)
ui(a, width) ==
    LET diff_area_width == DiffAreaWidth(width)
        file == Get(a.files, a.selected_file)
    IN  [status |-> "drawn",
         width |-> width,
         show_side_by_side |-> a.show_side_by_side,
         file_selected |-> IsSome(file),
         layout |-> IF IsSome(file)
                    THEN IF /\ a.show_side_by_side
                            /\ diff_area_width >= MinSideBySideAreaWidth
                         THEN "side_by_side"
                         ELSE "unified"
                    ELSE "none"]

----------------------------------------------------------------------------
(* The App driven through its methods *)

Init ==
    /\ diff_text = <<>>
    /\ parsed = Pending
    /\ \E sbs \in BOOLEAN : IsApp(AppNew(sbs))
    /\ pc = "main"
    /\ UiIdle

LoadDiff ==
    /\ \E parsedFiles \in ParsedGitOutputs : SetApp(load_diff(App, parsedFiles))
    /\ UNCHANGED <<diff_text, parsed, pc>>
    /\ UNCHANGED uiVars

NextFile ==
    /\ SetApp(next_file(App))
    /\ UNCHANGED <<diff_text, parsed, pc>>
    /\ UNCHANGED uiVars

PreviousFile ==
    /\ SetApp(previous_file(App))
    /\ UNCHANGED <<diff_text, parsed, pc>>
    /\ UNCHANGED uiVars

ScrollDown ==
    /\ SetApp(scroll_down(App))
    /\ UNCHANGED <<diff_text, parsed, pc>>
    /\ UNCHANGED uiVars

ScrollUp ==
    /\ SetApp(scroll_up(App))
    /\ UNCHANGED <<diff_text, parsed, pc>>
    /\ UNCHANGED uiVars

ToggleViewMode ==
    /\ \E width \in Widths : SetApp(toggle_view_mode(App, width))
    /\ UNCHANGED <<diff_text, parsed, pc>>
    /\ UNCHANGED uiVars

ToggleShortcuts ==
    /\ SetApp(toggle_shortcuts(App))
    /\ UNCHANGED <<diff_text, parsed, pc>>
    /\ UNCHANGED uiVars

Next ==
    \/ LoadDiff
    \/ NextFile
    \/ PreviousFile
    \/ ScrollDown
    \/ ScrollUp
    \/ ToggleViewMode
    \/ ToggleShortcuts

Spec == Init /\ [][Next]_vars

----------------------------------------------------------------------------
(* The program: main loads the diff once; each pass of the loop of run_app *)
(* draws a frame and then dispatches the event it reads                    *)

InitRun == Init

\* main: app.load_diff(&args.diff_args), then run_app
MainLoadDiff ==
    /\ pc = "main"
    /\ \E parsedFiles \in ParsedGitOutputs : SetApp(load_diff(App, parsedFiles))
    /\ pc' = "run_app"
    /\ UNCHANGED <<diff_text, parsed>>
    /\ UNCHANGED uiVars

\* run_app: `terminal.draw(|f| ui(f, &app))?` at the top of a pass of the
\* loop, on a terminal of some width
DrawFrame == \E width \in Widths : frame' = ui(App, width)

\* 'q'
KeyQuit ==
    /\ pc = "run_app"
    /\ pc' = "done"
    /\ UNCHANGED <<diff_text, parsed>>
    /\ DrawFrame
    /\ UNCHANGED harnessVars
    /\ UNCHANGED appVars

\* 'j' / Down
KeyNextFile ==
    /\ pc = "run_app"
    /\ SetApp(next_file(App))
    /\ UNCHANGED <<diff_text, parsed, pc>>
    /\ DrawFrame
    /\ UNCHANGED harnessVars

\* 'k' / Up
KeyPreviousFile ==
    /\ pc = "run_app"
    /\ SetApp(previous_file(App))
    /\ UNCHANGED <<diff_text, parsed, pc>>
    /\ DrawFrame
    /\ UNCHANGED harnessVars

\* 'd' / PageDown
KeyPageDown ==
    /\ pc = "run_app"
    /\ SetApp(scroll_down_times(App, PageStep))
    /\ UNCHANGED <<diff_text, parsed, pc>>
    /\ DrawFrame
    /\ UNCHANGED harnessVars

\* 'u' / PageUp
KeyPageUp ==
    /\ pc = "run_app"
    /\ SetApp(scroll_up_times(App, PageStep))
    /\ UNCHANGED <<diff_text, parsed, pc>>
    /\ DrawFrame
    /\ UNCHANGED harnessVars

\* 's'
KeyToggleView ==
    /\ pc = "run_app"
    /\ \E width \in Widths : SetApp(toggle_view_mode(App, width))
    /\ UNCHANGED <<diff_text, parsed, pc>>
    /\ DrawFrame
    /\ UNCHANGED harnessVars

\* 'h'
KeyToggleShortcuts ==
    /\ pc = "run_app"
    /\ SetApp(toggle_shortcuts(App))
    /\ UNCHANGED <<diff_text, parsed, pc>>
    /\ DrawFrame
    /\ UNCHANGED harnessVars

\* 'g'
KeyTop ==
    /\ pc = "run_app"
    /\ SetApp(scroll_top(App))
    /\ UNCHANGED <<diff_text, parsed, pc>>
    /\ DrawFrame
    /\ UNCHANGED harnessVars

\* 'G'
KeyBottom ==
    /\ pc = "run_app"
    /\ SetApp(scroll_bottom(App))
    /\ UNCHANGED <<diff_text, parsed, pc>>
    /\ DrawFrame
    /\ UNCHANGED harnessVars

\* any other key, or an event that is no key
KeyOther ==
    /\ pc = "run_app"
    /\ DrawFrame
    /\ UNCHANGED harnessVars
    /\ UNCHANGED <<diff_text, parsed, pc>>
    /\ UNCHANGED appVars

NextRun ==
    \/ MainLoadDiff
    \/ KeyQuit
    \/ KeyNextFile
    \/ KeyPreviousFile
    \/ KeyPageDown
    \/ KeyPageUp
    \/ KeyToggleView
    \/ KeyToggleShortcuts
    \/ KeyTop
    \/ KeyBottom
    \/ KeyOther

SpecRun == InitRun /\ [][NextRun]_vars

----------------------------------------------------------------------------
(* parse_diff applied to a diff text *)

InitParse ==
    /\ diff_text \in DiffTexts
    /\ parsed = Pending
    /\ IsApp(AppNew(FALSE))
    /\ pc = "main"
    /\ UiIdle

\* the call, in a build with or without overflow checks
ParseDiff ==
    /\ parsed.status = "pending"
    /\ \E overflow_checks \in BOOLEAN :
           parsed' = parse_diff(diff_text, overflow_checks)
    /\ UNCHANGED diff_text
    /\ UNCHANGED appVars
    /\ UNCHANGED pc
    /\ UNCHANGED uiVars

NextParse == ParseDiff

SpecParse == InitParse /\ [][NextParse]_vars

----------------------------------------------------------------------------
(* The two renderers applied to a window of a file *)

InitRender ==
    /\ diff_text = <<>>
    /\ parsed = Pending
    /\ IsApp(AppNew(FALSE))
    /\ pc = "main"
    /\ view \in Views
    /\ unified = NotDrawn
    /\ side_by_side = NotDrawn
    /\ old_text = <<>>
    /\ new_text = <<>>
    /\ intra_line_diff = NotComputed
    /\ LineIdle
    /\ frame = NotDrawn

RenderUnified ==
    /\ unified.status = "pending"
    /\ unified' = render_unified_diff(view.height, view.file,
                                      view.scroll_offset, view.overflow_checks)
    /\ UNCHANGED <<diff_text, parsed, pc>>
    /\ UNCHANGED appVars
    /\ UNCHANGED <<view, side_by_side, old_text, new_text, intra_line_diff>>
    /\ UNCHANGED <<lineVars, frame>>

RenderSideBySide ==
    /\ side_by_side.status = "pending"
    /\ side_by_side' =
           render_side_by_side_diff(view.height, view.file,
                                    view.scroll_offset, view.overflow_checks)
    /\ UNCHANGED <<diff_text, parsed, pc>>
    /\ UNCHANGED appVars
    /\ UNCHANGED <<view, unified, old_text, new_text, intra_line_diff>>
    /\ UNCHANGED <<lineVars, frame>>

NextRender ==
    \/ RenderUnified
    \/ RenderSideBySide

SpecRender == InitRender /\ [][NextRender]_vars

----------------------------------------------------------------------------
(* compute_intra_line_diff applied to a pair of lines *)

InitIntraLine ==
    /\ diff_text = <<>>
    /\ parsed = Pending
    /\ IsApp(AppNew(FALSE))
    /\ pc = "main"
    /\ view = NoView
    /\ unified = NotDrawn
    /\ side_by_side = NotDrawn
    /\ \E texts \in TextPairs :
          /\ old_text = texts[1]
          /\ new_text = texts[2]
    /\ intra_line_diff = NotComputed
    /\ LineIdle
    /\ frame = NotDrawn

\* the call, with the edit script the diff library returns
ComputeIntraLineDiff ==
    /\ intra_line_diff.status = "pending"
    /\ \E changes \in diff_chars(old_text, new_text) :
           intra_line_diff' = compute_intra_line_diff(changes)
    /\ UNCHANGED <<diff_text, parsed, pc>>
    /\ UNCHANGED appVars
    /\ UNCHANGED <<view, unified, side_by_side, old_text, new_text>>
    /\ UNCHANGED <<lineVars, frame>>

NextIntraLine == ComputeIntraLineDiff

SpecIntraLine == InitIntraLine /\ [][NextIntraLine]_vars

----------------------------------------------------------------------------
(* apply_diff_highlight applied to spans and ranges *)

InitHighlight ==
    /\ diff_text = <<>>
    /\ parsed = Pending
    /\ IsApp(AppNew(FALSE))
    /\ pc = "main"
    /\ view = NoView
    /\ unified = NotDrawn
    /\ side_by_side = NotDrawn
    /\ old_text = <<>>
    /\ new_text = <<>>
    /\ intra_line_diff = NotComputed
    /\ spans \in SpanSeqs
    /\ diff_ranges \in RangeSeqs
    /\ highlighted = NotDrawn
    /\ diff_line = NoLine
    /\ rendered_line = NotDrawn
    /\ frame = NotDrawn

ApplyDiffHighlight ==
    /\ highlighted.status = "pending"
    /\ highlighted' = apply_diff_highlight(spans, diff_ranges,
                                           BaseBg, HighlightBg)
    /\ UNCHANGED <<diff_text, parsed, pc>>
    /\ UNCHANGED appVars
    /\ UNCHANGED <<view, unified, side_by_side, old_text, new_text,
                   intra_line_diff>>
    /\ UNCHANGED <<spans, diff_ranges, diff_line, rendered_line, frame>>

NextHighlight == ApplyDiffHighlight

SpecHighlight == InitHighlight /\ [][NextHighlight]_vars

----------------------------------------------------------------------------
(* render_diff_line applied to a line *)

InitRenderLine ==
    /\ diff_text = <<>>
    /\ parsed = Pending
    /\ IsApp(AppNew(FALSE))
    /\ pc = "main"
    /\ view = NoView
    /\ unified = NotDrawn
    /\ side_by_side = NotDrawn
    /\ old_text = <<>>
    /\ new_text = <<>>
    /\ intra_line_diff = NotComputed
    /\ spans = <<>>
    /\ diff_ranges = <<>>
    /\ highlighted = NotDrawn
    /\ diff_line \in RenderLines
    /\ rendered_line = NotDrawn
    /\ frame = NotDrawn

\* the call, with the spans the syntax highlighter returns for the content
RenderDiffLine ==
    /\ rendered_line.status = "pending"
    /\ \E highlighted_spans \in Highlightings(diff_line.content),
          intra_line_highlight \in IntraLineHighlights :
           rendered_line' = render_diff_line(diff_line, highlighted_spans,
                                             intra_line_highlight)
    /\ UNCHANGED <<diff_text, parsed, pc>>
    /\ UNCHANGED appVars
    /\ UNCHANGED <<view, unified, side_by_side, old_text, new_text,
                   intra_line_diff>>
    /\ UNCHANGED <<spans, diff_ranges, highlighted, diff_line, frame>>

NextRenderLine == RenderDiffLine

SpecRenderLine == InitRenderLine /\ [][NextRenderLine]_vars

----------------------------------------------------------------------------
(* Navigation state: selection and scrolling *)

\* the selected file, an Option (files.get(selected_file))
SelectedFile == Get(files, selected_file)

\* C1: after any sequence of load_diff, next_file, previous_file,
\* scroll_down, scroll_up, toggle_view_mode and toggle_shortcuts, whenever
\* files is non-empty the selected index satisfies
\* 0 <= selected_file < files.len().
C1_SelectedFileInRange ==
    files /= <<>> => (0 <= selected_file /\ selected_file < Len(files))

\* C2: after any sequence of ScrollDown, ScrollUp, Top, Bottom, NextFile and
\* PrevFile over files of arbitrary lengths, scroll_offset satisfies
\* 0 <= scroll_offset < max(1, lines.len()) for the selected file.
C2_ScrollOffsetInRange ==
    /\ 0 <= scroll_offset
    /\ files /= <<>> =>
          /\ IsSome(SelectedFile)
          /\ scroll_offset < Max(1, Len(Unwrap(SelectedFile).lines))

\* C2 witness: a file that is not the first is selected and scrolled to its
\* last line, after a page down and back up in it; the diff also holds a
\* file without lines and a file of another length.
C2_Witness ==
    /\ pc = "run_app"
    /\ selected_file > 0
    /\ IsSome(SelectedFile)
    /\ Len(Unwrap(SelectedFile).lines) > PageStep
    /\ scroll_offset = Len(Unwrap(SelectedFile).lines) - 1
    /\ \E i \in 1..Len(files) : Len(files[i].lines) = 0
    /\ \E i \in 1..Len(files) : Len(files[i].lines) = 1

RECURSIVE next_file_times(_, _)
next_file_times(a, n) ==
    IF n = 0 THEN a ELSE next_file_times(next_file(a), n - 1)

\* C3: file selection is cyclic: from any state with a non-empty file list,
\* NextFile called files.len() times returns selected_file to its original
\* value, NextFile from the last index wraps to 0, PrevFile from index 0
\* wraps to files.len() - 1, and PrevFile undoes NextFile on selected_file.
C3_SelectionCyclic ==
    files /= <<>> =>
        /\ next_file_times(App, Len(files)).selected_file = selected_file
        /\ selected_file = Len(files) - 1 => next_file(App).selected_file = 0
        /\ selected_file = 0 =>
              previous_file(App).selected_file = Len(files) - 1
        /\ previous_file(next_file(App)).selected_file = selected_file

\* C4: NextFile and PrevFile are safe on every state: with files empty they
\* leave the whole navigation state unchanged, with files non-empty they set
\* scroll_offset to 0 for the newly selected file.
C4_FileSwitchSafe ==
    /\ files = <<>> => (next_file(App) = App /\ previous_file(App) = App)
    /\ files /= <<>> =>
          /\ next_file(App).scroll_offset = 0
          /\ previous_file(App).scroll_offset = 0

\* C4 witness: no file is loaded any more while the selection and the
\* scroll offset are not at their initial values.
C4_Witness ==
    /\ files = <<>>
    /\ selected_file > 0
    /\ scroll_offset > 0

\* C5 as claimed: side-by-side mode is entered only when the width is at
\* least 120 columns, and a toggle with a smaller width is a no-op that
\* leaves the state unchanged with the view mode at Unified.
C5_ToggleBelowThresholdIsNoOp ==
    \A width \in Widths :
        LET toggled == toggle_view_mode(App, width)
        IN  /\ (toggled.show_side_by_side /\ ~show_side_by_side) =>
                   width >= MinSideBySideWidth
            /\ width < MinSideBySideWidth =>
                   (toggled = App /\ ~toggled.show_side_by_side)

\* C5 as amended: side-by-side mode is entered only when the width is at
\* least 120 columns (and then from Unified it is entered); a toggle with a
\* smaller width changes nothing but the view mode, which it leaves at
\* Unified: it is a no-op when the mode was Unified and it leaves
\* side-by-side mode otherwise.
C5_ToggleBelowThresholdGivesUnified ==
    \A width \in Widths :
        LET toggled == toggle_view_mode(App, width)
        IN  /\ toggled.show_side_by_side <=>
                   (width >= MinSideBySideWidth /\ ~show_side_by_side)
            /\ toggled = [App EXCEPT !.show_side_by_side =
                                         toggled.show_side_by_side]
            /\ width < MinSideBySideWidth =>
                   /\ ~toggled.show_side_by_side
                   /\ ~show_side_by_side => toggled = App

\* C5 witness: the App is in side-by-side mode with files loaded, where a
\* toggle below the threshold is not a no-op.
C5_Witness ==
    /\ show_side_by_side
    /\ files /= <<>>
    /\ \E width \in Widths :
          /\ width < MinSideBySideWidth
          /\ toggle_view_mode(App, width) /= App

----------------------------------------------------------------------------
(* The parser: files and line numbers *)

\* a `diff --git` line with at least 4 whitespace-separated tokens
IsFileHeader(line) ==
    StartsWith(line, DiffGitPrefix) /\ Len(SplitWhitespace(line)) >= 4

\* the file header lines of a text, in order
FileHeaders(text) == SelectSeq(Lines(text), IsFileHeader)

\* all lines of all files returned by the parser, as <<file, index>> pairs
ParsedLineIds ==
    UNION {{<<f, i>> : i \in 1..Len(parsed.files[f].lines)} :
              f \in 1..Len(parsed.files)}

\* lines i..j of ls hold no Header line
NoHeaderIn(ls, i, j) == \A k \in i..j : ls[k].line_type /= "Header"

\* C6: for every diff text, the number of DiffFile values returned by
\* parse_diff equals the number of input lines that begin with `diff --git`
\* and contain at least 4 whitespace-separated tokens, and the files appear
\* in the order of their headers.
C6_FileCountMatchesHeaders ==
    parsed.status = "returned" =>
        LET headers == FileHeaders(diff_text)
        IN  /\ Len(parsed.files) = Len(headers)
            /\ \A k \in 1..Len(headers) :
                  parsed.files[k].name =
                      TrimStartMatches(SplitWhitespace(headers[k])[4],
                                       BSlashPrefix)

\* C6 witness: two files with different names are returned from a text that
\* also holds a `diff --git` line with fewer than 4 tokens.
C6_Witness ==
    /\ parsed.status = "returned"
    /\ Len(parsed.files) = 2
    /\ parsed.files[1].name /= parsed.files[2].name
    /\ \E i \in 1..Len(Lines(diff_text)) :
          /\ StartsWith(Lines(diff_text)[i], DiffGitPrefix)
          /\ ~IsFileHeader(Lines(diff_text)[i])

\* C7: parse_diff never fails: for every input text, hunk starts anywhere in
\* the range of the u32 counters included, it returns a file sequence
\* without panicking.
C7_ParseNeverFails == parsed.status /= "panicked"

\* C8: every DiffLine produced by the parser has old_line_num present iff
\* its kind is Context or Removed and new_line_num present iff its kind is
\* Context or Added; Header lines carry neither number.
C8_LineNumbersMatchKind ==
    \A id \in ParsedLineIds :
        LET line == parsed.files[id[1]].lines[id[2]]
        IN  /\ IsSome(line.old_line_num) <=>
                   line.line_type \in {"Context", "Removed"}
            /\ IsSome(line.new_line_num) <=>
                   line.line_type \in {"Context", "Added"}

\* C8 witness: a returned file holds a line of each of the four kinds.
C8_Witness ==
    /\ parsed.status = "returned"
    /\ \E f \in 1..Len(parsed.files) :
          \A kind \in LineTypes :
              \E i \in 1..Len(parsed.files[f].lines) :
                  parsed.files[f].lines[i].line_type = kind

\* C9: for every parsed file and every hunk in it (the lines between one
\* Header line and the next), old_line_num is non-decreasing across the
\* Context and Removed lines and new_line_num is non-decreasing across the
\* Context and Added lines, hunk starts near the top of the u32 range
\* included.
C9_LineNumbersMonotonic ==
    \A f \in 1..Len(parsed.files) :
        LET ls == parsed.files[f].lines
        IN  \A i, j \in 1..Len(ls) :
                (i < j /\ NoHeaderIn(ls, i, j)) =>
                    /\ (IsSome(ls[i].old_line_num) /\ IsSome(ls[j].old_line_num))
                          => U32Leq(Unwrap(ls[i].old_line_num),
                                    Unwrap(ls[j].old_line_num))
                    /\ (IsSome(ls[i].new_line_num) /\ IsSome(ls[j].new_line_num))
                          => U32Leq(Unwrap(ls[i].new_line_num),
                                    Unwrap(ls[j].new_line_num))

\* the number of lines of ls strictly between h and j whose kind is in kinds
CountBetween(ls, h, j, kinds) ==
    Cardinality({k \in (h + 1)..(j - 1) : ls[k].line_type \in kinds})

\* the lines the sample diff is to yield: Header, Removed(old = 1),
\* Added(new = 1), Context(old = 2, new = 2)
SampleLines ==
    <<[line_type |-> "Header", old_line_num |-> None, new_line_num |-> None,
       content |-> LineHunk12],
      [line_type |-> "Removed", old_line_num |-> Some(U32(1)),
       new_line_num |-> None, content |-> <<"o", "l", "d">>],
      [line_type |-> "Added", old_line_num |-> None,
       new_line_num |-> Some(U32(1)), content |-> <<"n", "e", "w">>],
      [line_type |-> "Context", old_line_num |-> Some(U32(2)),
       new_line_num |-> Some(U32(2)),
       content |-> <<"c", "o", "n", "t", "e", "x", "t">>]>>

\* C10: within a hunk whose header parses to starts (a, b), each Removed or
\* Context line receives old_line_num = a + (number of preceding
\* Removed/Context lines of the hunk) and each Added or Context line receives
\* new_line_num = b + (number of preceding Added/Context lines of the hunk);
\* the sample diff yields one file t.txt with exactly the 4 lines Header,
\* Removed(old = 1), Added(new = 1), Context(old = 2, new = 2).
C10_LineNumbersCountFromHunkStart ==
    /\ \A f \in 1..Len(parsed.files) :
          LET ls == parsed.files[f].lines
          IN  \A h, j \in 1..Len(ls) :
                  (/\ h < j
                   /\ ls[h].line_type = "Header"
                   /\ IsSome(HunkInfo(ls[h].content))
                   /\ NoHeaderIn(ls, h + 1, j)) =>
                      LET info == Unwrap(HunkInfo(ls[h].content))
                          a == HunkStart(info[1])
                          b == HunkStart(info[2])
                      IN  /\ ls[j].line_type \in {"Removed", "Context"} =>
                                 ls[j].old_line_num =
                                     Some(NatPlus(a, CountBetween(ls, h, j,
                                                    {"Removed", "Context"})))
                          /\ ls[j].line_type \in {"Added", "Context"} =>
                                 ls[j].new_line_num =
                                     Some(NatPlus(b, CountBetween(ls, h, j,
                                                    {"Added", "Context"})))
    /\ (diff_text = SampleDiff /\ parsed.status = "returned") =>
          /\ Len(parsed.files) = 1
          /\ parsed.files[1].name = <<"t", ".", "t", "x", "t">>
          /\ parsed.files[1].lines = SampleLines

----------------------------------------------------------------------------
(* The parser: what the lines of a file are made of *)

\* the input lines of each file of a text: what follows a file header, up to
\* the next `diff --git` line
RECURSIVE FileBlocksFrom(_, _, _, _)
FileBlocksFrom(lines, i, cur, acc) ==
    LET closed == IF IsSome(cur) THEN Append(acc, Unwrap(cur)) ELSE acc
    IN  IF i > Len(lines) THEN closed
        ELSE IF StartsWith(lines[i], DiffGitPrefix)
        THEN FileBlocksFrom(lines, i + 1,
                            IF IsFileHeader(lines[i]) THEN Some(<<>>) ELSE None,
                            closed)
        ELSE FileBlocksFrom(lines, i + 1,
                            IF IsSome(cur)
                            THEN Some(Append(Unwrap(cur), lines[i])) ELSE None,
                            acc)

FileBlocks(text) == FileBlocksFrom(Lines(text), 1, None, <<>>)

IsHunkHeader(line) == StartsWith(line, HunkPrefix)

\* a line of a hunk body: it starts with one of the markers '+', '-', ' '
IsBodyLine(line) ==
    /\ ~IsHunkHeader(line)
    /\ \/ StartsWith(line, <<"+">>)
       \/ StartsWith(line, <<"-">>)
       \/ StartsWith(line, <<" ">>)

\* the body lines of the hunks of a block: the marker lines after its first
\* hunk header
HunkBodyLines(block) ==
    LET hs == {h \in 1..Len(block) : IsHunkHeader(block[h])}
    IN  IF hs = {} THEN <<>>
        ELSE LET first == CHOOSE h \in hs : \A g \in hs : h <= g
             IN  SelectSeq(SubSeq(block, first + 1, Len(block)), IsBodyLine)

Marker(line_type) ==
    CASE line_type = "Added" -> "+"
      [] line_type = "Removed" -> "-"
      [] line_type = "Context" -> " "

\* the input line a DiffLine stands for: a Header line verbatim, the content
\* of any other line behind its marker
Restored(line) ==
    IF line.line_type = "Header" THEN line.content
    ELSE <<Marker(line.line_type)>> \o line.content

IsHeaderLine(line) == line.line_type = "Header"
IsContentLine(line) == line.line_type /= "Header"

RestoredLines(ls) == [i \in 1..Len(ls) |-> Restored(ls[i])]

\* C11: round trip: for every diff text and every parsed file, re-prefixing
\* the content of each non-Header line with its marker ('+', '-', ' ') and
\* concatenating in order reproduces exactly the body lines of that file's
\* hunks in the input: no hunk body line is lost, altered or reordered,
\* whatever its content.
C11_BodyRoundTrip ==
    parsed.status = "returned" =>
        LET blocks == FileBlocks(diff_text)
        IN  /\ Len(parsed.files) = Len(blocks)
            /\ \A f \in 1..Len(blocks) :
                  RestoredLines(SelectSeq(parsed.files[f].lines, IsContentLine))
                      = HunkBodyLines(blocks[f])

\* str::strip_prefix(prefix).unwrap_or(s): one leading prefix removed
StripPrefixOnce(s, prefix) ==
    IF StartsWith(s, prefix) THEN DropFirst(s, Len(prefix)) ELSE s

\* C12: for every `diff --git` header line with at least 4 tokens, the name
\* of the file is the 4th token with a leading `b/` stripped if present and
\* the token unchanged otherwise, so that prefixed (`a/x b/x`) and
\* `--no-prefix` (`x x`) headers both yield the path of the b side.
C12_NameIsFourthToken ==
    parsed.status = "returned" =>
        LET headers == FileHeaders(diff_text)
        IN  /\ Len(parsed.files) = Len(headers)
            /\ \A k \in 1..Len(headers) :
                  parsed.files[k].name =
                      StripPrefixOnce(SplitWhitespace(headers[k])[4],
                                      BSlashPrefix)

\* the k-th whitespace-separated field of a hunk header without its sign,
\* empty when the header has no such field
HunkField(header, k, sign) ==
    LET tokens == SplitWhitespace(header)
    IN  IF Len(tokens) < k THEN <<>> ELSE StripPrefixOnce(tokens[k], sign)

HasComma(field) == FindFrom(field, ",", 1) /= 0

\* the start a field denotes: the number before its first comma, the whole
\* field when it has no comma, 1 when that is not a number
FieldStart(field) == UnwrapOr(ParseU32(SplitFirst(field, ",")), U32(1))

\* line h of ls is a Header line followed by a line of one of the kinds
HeaderBefore(ls, h, kinds) ==
    /\ h + 1 <= Len(ls)
    /\ ls[h].line_type = "Header"
    /\ ls[h + 1].line_type \in kinds

\* C13: for a hunk header whose old or new field has only one number and no
\* comma (as in `@@ -3 +7 @@`) the parser uses that whole number as the
\* start (old counter 3, new counter 7), and a non-numeric field yields the
\* default start 1.
C13_SingleNumberFieldIsStart ==
    \A f \in 1..Len(parsed.files) :
        LET ls == parsed.files[f].lines
        IN  \A h \in 1..Len(ls) :
                LET old == HunkField(ls[h].content, 2, <<"-">>)
                    new == HunkField(ls[h].content, 3, <<"+">>)
                IN  /\ (/\ HeaderBefore(ls, h, {"Removed", "Context"})
                        /\ old /= <<>>
                        /\ ~HasComma(old) \/ ~IsSome(ParseU32(SplitFirst(old, ","))))
                           => ls[h + 1].old_line_num = Some(FieldStart(old))
                    /\ (/\ HeaderBefore(ls, h, {"Added", "Context"})
                        /\ new /= <<>>
                        /\ ~HasComma(new) \/ ~IsSome(ParseU32(SplitFirst(new, ","))))
                           => ls[h + 1].new_line_num = Some(FieldStart(new))

\* C14: for every line starting with `@@` seen while a file is open, a Header
\* line is emitted verbatim and both counters are reset: each counter becomes
\* the number before the first comma of its field, and on any parse failure
\* of the header (missing fields, missing spaces, non-numeric text) the
\* counter is set to 1 rather than keeping its previous value.
C14_HunkHeaderResetsCounters ==
    parsed.status = "returned" =>
        LET blocks == FileBlocks(diff_text)
        IN  /\ Len(parsed.files) = Len(blocks)
            /\ \A f \in 1..Len(blocks) :
                  LET ls == parsed.files[f].lines
                  IN  /\ RestoredLines(SelectSeq(ls, IsHeaderLine))
                             = SelectSeq(blocks[f], IsHunkHeader)
                      /\ \A h \in 1..Len(ls) :
                            /\ HeaderBefore(ls, h, {"Removed", "Context"}) =>
                                  ls[h + 1].old_line_num =
                                      Some(FieldStart(HunkField(ls[h].content,
                                                                2, <<"-">>)))
                            /\ HeaderBefore(ls, h, {"Added", "Context"}) =>
                                  ls[h + 1].new_line_num =
                                      Some(FieldStart(HunkField(ls[h].content,
                                                                3, <<"+">>)))

\* a line that one of the branches of the loop adds to the open file
IsParsedLine(line) ==
    \/ IsHunkHeader(line)
    \/ StartsWith(line, <<"+">>) /\ ~StartsWith(line, PlusPlusPlus)
    \/ StartsWith(line, <<"-">>) /\ ~StartsWith(line, MinusMinusMinus)
    \/ StartsWith(line, <<" ">>)

\* C15: a `diff --git` header with fewer than 4 tokens finalizes the open
\* file, if any, and opens no file; every hunk header and content line
\* between it and the next valid header contributes nothing to any file, and
\* likewise the lines before the first valid header: the lines of each file
\* returned are made of the lines between its own header and the next
\* `diff --git` line and of nothing else.
C15_LinesOutsideFilesDropped ==
    parsed.status = "returned" =>
        LET blocks == FileBlocks(diff_text)
        IN  /\ Len(parsed.files) = Len(blocks)
            /\ \A f \in 1..Len(blocks) :
                  RestoredLines(parsed.files[f].lines)
                      = SelectSeq(blocks[f], IsParsedLine)

\* C15 witness: the text starts with a content line, a file is open when a
\* `diff --git` line with fewer than 4 tokens arrives, and a hunk header or a
\* content line follows that line.
C15_Witness ==
    /\ parsed.status = "returned"
    /\ Len(parsed.files) >= 1
    /\ LET lines == Lines(diff_text)
       IN  /\ lines /= <<>>
           /\ IsBodyLine(lines[1])
           /\ \E i, j \in 1..Len(lines) :
                 /\ i < j
                 /\ j + 1 <= Len(lines)
                 /\ IsFileHeader(lines[i])
                 /\ \A k \in (i + 1)..(j - 1) :
                       ~StartsWith(lines[k], DiffGitPrefix)
                 /\ StartsWith(lines[j], DiffGitPrefix)
                 /\ ~IsFileHeader(lines[j])
                 /\ IsParsedLine(lines[j + 1])

\* the number of lines of ls before j whose kind is in kinds
CountBefore(ls, j, kinds) ==
    Cardinality({k \in 1..(j - 1) : ls[k].line_type \in kinds})

\* C16: content lines of an open file that are not preceded by a hunk header
\* of that file (a first file without hunk header, or a later file whose
\* hunk header is missing) are numbered starting from 1: not from 0, and not
\* continuing the counters of the previous file.
C16_NumberingDefaultsToOne ==
    \A f \in 1..Len(parsed.files) :
        LET ls == parsed.files[f].lines
        IN  \A j \in 1..Len(ls) :
                NoHeaderIn(ls, 1, j) =>
                    /\ ls[j].line_type \in {"Removed", "Context"} =>
                           ls[j].old_line_num =
                               Some(U32(1 + CountBefore(ls, j,
                                                {"Removed", "Context"})))
                    /\ ls[j].line_type \in {"Added", "Context"} =>
                           ls[j].new_line_num =
                               Some(U32(1 + CountBefore(ls, j,
                                                {"Added", "Context"})))

----------------------------------------------------------------------------
(* The pairing of Removed and Added lines in the window *)

\* the index one past the last line of the window of view
ViewEnd ==
    EndLine(view.file, view.scroll_offset,
            VisibleLines(view.height, view.overflow_checks).value)

\* the kind of line i of the file of view, 0-based
KindAt(i) == LineAt(view.file, i).line_type

\* the kinds of the lines of the window, first to last
WindowKinds ==
    [k \in 1..(ViewEnd - view.scroll_offset) |->
        KindAt(view.scroll_offset + k - 1)]

UnitSize(unit) == IF unit.kind = "Pair" THEN 2 ELSE 1

\* units scan the window forward from its start, and a unit is a Pair
\* exactly when its line is Removed, the next index is inside the window and
\* the line there is Added
FollowsPairingRule(units) ==
    \A u \in 1..Len(units) :
        LET i == units[u].index
        IN  /\ i = IF u = 1 THEN view.scroll_offset
                   ELSE units[u - 1].index + UnitSize(units[u - 1])
            /\ i < ViewEnd
            /\ units[u].kind = "Pair" <=>
                   /\ KindAt(i) = "Removed"
                   /\ i + 1 < ViewEnd
                   /\ KindAt(i + 1) = "Added"

\* the examples of the rule, for the units of a window that starts at s
PairingExamples(units) ==
    LET s == view.scroll_offset
    IN  /\ WindowKinds = <<"Removed", "Added", "Context">> =>
               units = <<Pair(s), Single(s + 2)>>
        /\ WindowKinds = <<"Removed", "Removed", "Added">> =>
               units = <<Single(s), Pair(s + 1)>>
        /\ (/\ s < ViewEnd
            /\ ViewEnd < line_count(view.file)
            /\ KindAt(ViewEnd - 1) = "Removed"
            /\ KindAt(ViewEnd) = "Added") =>
               units[Len(units)] = Single(ViewEnd - 1)

\* C17: line pairing rule: scanning a visible window forward from its start,
\* a Pair is emitted (consuming two lines) exactly when the current line is
\* Removed, the line at index + 1 is Added and index + 1 is still inside the
\* window; in every other case a Single is emitted consuming one line. Window
\* [Removed, Added, Context] gives [Pair(0,1), Single(2)], window
\* [Removed, Removed, Added] gives [Single(0), Pair(1,2)], and a Removed on
\* the last visible row whose Added partner lies just outside the window is
\* a Single. This holds in the unified and in the side-by-side renderer.
C17_PairingRule ==
    /\ unified.status = "drawn" =>
           FollowsPairingRule(unified.units) /\ PairingExamples(unified.units)
    /\ side_by_side.status = "drawn" =>
           /\ FollowsPairingRule(side_by_side.units)
           /\ PairingExamples(side_by_side.units)

\* C17 witness: both renderers have drawn a window that holds a Pair and
\* ends on a Removed line whose Added partner is the first line below it.
C17_Witness ==
    /\ unified.status = "drawn"
    /\ side_by_side.status = "drawn"
    /\ view.scroll_offset < ViewEnd
    /\ ViewEnd < line_count(view.file)
    /\ KindAt(ViewEnd - 1) = "Removed"
    /\ KindAt(ViewEnd) = "Added"
    /\ \E u \in 1..Len(unified.units) : unified.units[u].kind = "Pair"
    /\ \E u \in 1..Len(side_by_side.units) : side_by_side.units[u].kind = "Pair"

IsChangeAt(i) == KindAt(i) \in {"Removed", "Added"}

\* the maximal runs a..(b - 1) of consecutive Removed/Added lines of the window
RunsInWindow ==
    {r \in (view.scroll_offset..ViewEnd) \X (view.scroll_offset..ViewEnd) :
        /\ r[1] < r[2]
        /\ \A i \in r[1]..(r[2] - 1) : IsChangeAt(i)
        /\ r[1] = view.scroll_offset \/ ~IsChangeAt(r[1] - 1)
        /\ r[2] = ViewEnd \/ ~IsChangeAt(r[2])}

\* the number of Pair units of lines a..(b - 1)
PairsIn(units, a, b) ==
    Cardinality({u \in 1..Len(units) :
                    /\ units[u].kind = "Pair"
                    /\ a <= units[u].index
                    /\ units[u].index < b})

CeilHalf(k) == (k + 1) \div 2

\* the Removed lines of a..(b - 1) that are directly followed by an Added
\* line of a..(b - 1)
RemovedThenAdded(a, b) ==
    {i \in a..(b - 2) : KindAt(i) = "Removed" /\ KindAt(i + 1) = "Added"}

\* the run a..(b - 1) is Removed, Added, Removed, Added, ...
Alternates(a, b) ==
    \A i \in a..(b - 1) :
        KindAt(i) = IF (i - a) % 2 = 0 THEN "Removed" ELSE "Added"

\* C18 as claimed: for every maximal run of consecutive Removed/Added lines
\* of length k lying fully inside the window, the pairing policy produces
\* ceil(k / 2) pairs (k / 2 pairs when k is even).
C18_RunGivesCeilHalfPairs ==
    \A r \in RunsInWindow :
        /\ unified.status = "drawn" =>
               PairsIn(unified.units, r[1], r[2]) = CeilHalf(r[2] - r[1])
        /\ side_by_side.status = "drawn" =>
               PairsIn(side_by_side.units, r[1], r[2]) = CeilHalf(r[2] - r[1])

\* the pairs of the run a..(b - 1) among units: one for every Removed line
\* directly followed by an Added line, hence at most floor(k / 2), and k / 2
\* when the run alternates and k is even; every other line is a Single
RunPairsAsDecided(units, a, b) ==
    /\ PairsIn(units, a, b) = Cardinality(RemovedThenAdded(a, b))
    /\ PairsIn(units, a, b) <= (b - a) \div 2
    /\ (Alternates(a, b) /\ (b - a) % 2 = 0) =>
           PairsIn(units, a, b) = (b - a) \div 2
    /\ \A i \in a..(b - 1) :
           \/ \E u \in 1..Len(units) : units[u] = Single(i)
           \/ \E u \in 1..Len(units) : units[u] = Pair(i) /\ i \in RemovedThenAdded(a, b)
           \/ \E u \in 1..Len(units) :
                  units[u] = Pair(i - 1) /\ (i - 1) \in RemovedThenAdded(a, b)

\* C18 as amended: for every maximal run of consecutive Removed/Added lines
\* of length k lying fully inside the window, the pairing policy produces
\* one pair for every Removed line of the run that is directly followed by
\* an Added line of the run: at most floor(k / 2) pairs, and k / 2 pairs when
\* k is even and the run alternates Removed, Added, ...; every other line of
\* the run (a Removed not followed by an Added, an Added not preceded by a
\* Removed, or one whose partner falls outside the window) is a Single.
C18_RunGivesPairPerRemovedThenAdded ==
    \A r \in RunsInWindow :
        /\ unified.status = "drawn" =>
               RunPairsAsDecided(unified.units, r[1], r[2])
        /\ side_by_side.status = "drawn" =>
               RunPairsAsDecided(side_by_side.units, r[1], r[2])

\* C18 witness: both renderers have drawn a window with a run of at least 3
\* Removed/Added lines that yields a pair, but fewer pairs than ceil(k / 2).
C18_Witness ==
    /\ unified.status = "drawn"
    /\ side_by_side.status = "drawn"
    /\ \E r \in RunsInWindow :
          /\ r[2] - r[1] >= 3
          /\ PairsIn(unified.units, r[1], r[2]) >= 1
          /\ PairsIn(unified.units, r[1], r[2]) < CeilHalf(r[2] - r[1])
          /\ PairsIn(side_by_side.units, r[1], r[2]) >= 1

\* C19: for every file, scroll offset and visible-line count, the unified
\* renderer and the side-by-side renderer make the identical sequence of
\* pairing decisions: the same indices are grouped as Pair and the same
\* indices as Single, in the same order.
C19_RenderersPairAlike ==
    (unified.status /= "pending" /\ side_by_side.status /= "pending") =>
        /\ unified.status = side_by_side.status
        /\ unified.units = side_by_side.units

\* C19 witness: both renderers have drawn a window with a Pair and a Single
\* in which the line below the window is the Added partner of the last
\* visible line, and they have decided on two units or more.
C19_Witness ==
    /\ unified.status = "drawn"
    /\ side_by_side.status = "drawn"
    /\ Len(unified.units) >= 2
    /\ ViewEnd < line_count(view.file)
    /\ view.scroll_offset < ViewEnd
    /\ KindAt(ViewEnd - 1) = "Removed"
    /\ KindAt(ViewEnd) = "Added"
    /\ \E u, w \in 1..Len(side_by_side.units) :
          /\ side_by_side.units[u].kind = "Pair"
          /\ side_by_side.units[w].kind = "Single"

----------------------------------------------------------------------------
(* The ranges of the intra-line diff *)

\* the ways old_text and new_text differ by one replaced substring: <<p, x, y>>
\* when x characters after the first p of old_text are replaced by y
\* characters that share no character with them
Replacements ==
    {r \in (0..Len(old_text)) \X (1..Len(old_text)) \X (1..Len(new_text)) :
        LET p == r[1]
            x == r[2]
            y == r[3]
        IN  /\ p + x <= Len(old_text)
            /\ p + y <= Len(new_text)
            /\ SubSeq(old_text, 1, p) = SubSeq(new_text, 1, p)
            /\ SubSeq(old_text, p + x + 1, Len(old_text))
                   = SubSeq(new_text, p + y + 1, Len(new_text))
            /\ \A i \in (p + 1)..(p + x) : \A j \in (p + 1)..(p + y) :
                   old_text[i] /= new_text[j]}

\* the one range that covers n characters after the first p of text
ReplacedRange(text, p, n) ==
    <<Range(ByteLen(SubSeq(text, 1, p)), ByteLen(SubSeq(text, 1, p + n)))>>

\* the result has one range per side, on the replaced bytes
CoversReplacement(r) ==
    /\ intra_line_diff.old_ranges = ReplacedRange(old_text, r[1], r[2])
    /\ intra_line_diff.new_ranges = ReplacedRange(new_text, r[1], r[3])

AlignmentForced(r) ==
    \A changes \in diff_chars(old_text, new_text) :
        /\ Len(changes) = Len(old_text) + r[3]
        /\ \A k \in 1..Len(changes) :
               changes[k].tag = "Equal" <=>
                   (k <= r[1] \/ k > r[1] + r[2] + r[3])

----------------------------------------------------------------------------
(* The intra-line diff: what the ranges mark *)

Computed == intra_line_diff.status = "returned"

\* C21: for every string s, the empty one included, the intra-line diff of s
\* with itself returns two empty sequences of ranges.
C21_SameTextGivesNoRange ==
    (Computed /\ old_text = new_text)
        => /\ intra_line_diff.old_ranges = <<>>
           /\ intra_line_diff.new_ranges = <<>>

C21_Witness ==
    /\ Computed
    /\ old_text = new_text
    /\ Len(old_text) >= 2
    /\ \E k \in 1..Len(old_text) : old_text[k] \in TwoByteChars

\* the byte offsets of a text at which a character starts or the text ends
CharBoundaries(text) == {ByteLen(SubSeq(text, 1, k)) : k \in 0..Len(text)}

\* the ranges are non-empty, ascending with a gap between neighbours, inside
\* the text, and bounded by character boundaries
WellFormedRanges(ranges, text) ==
    /\ \A k \in 1..Len(ranges) :
           /\ ranges[k].start < ranges[k].end
           /\ 0 <= ranges[k].start
           /\ ranges[k].end <= ByteLen(text)
           /\ ranges[k].start \in CharBoundaries(text)
           /\ ranges[k].end \in CharBoundaries(text)
    /\ \A k \in 1..(Len(ranges) - 1) : ranges[k].end < ranges[k + 1].start

\* C22: each sequence compute_intra_line_diff returns consists of non-empty
\* half-open ranges in strictly ascending order that neither overlap nor
\* touch, each inside [0, byte length of its string], with every boundary
\* on a character boundary.
C22_RangesWellFormed ==
    Computed
        => /\ WellFormedRanges(intra_line_diff.old_ranges, old_text)
           /\ WellFormedRanges(intra_line_diff.new_ranges, new_text)

C22_Witness ==
    /\ Computed
    /\ Len(intra_line_diff.old_ranges) >= 2
    /\ intra_line_diff.new_ranges /= <<>>
    /\ \E k \in 1..Len(old_text) : old_text[k] \in TwoByteChars

\* the bytes of the UTF-8 encoding of a character
Utf8Bytes(c) == IF c = "é" THEN <<"C3", "A9">> ELSE <<c>>

RECURSIVE Bytes(_)
Bytes(text) ==
    IF text = <<>> THEN <<>> ELSE Utf8Bytes(Head(text)) \o Bytes(Tail(text))

\* the byte at offset k (0-based) is covered by one of the ranges
Covered(ranges, k) ==
    \E r \in 1..Len(ranges) : ranges[r].start <= k /\ k < ranges[r].end

\* the bytes left when the bytes covered by the ranges are deleted
RECURSIVE UncoveredFrom(_, _, _)
UncoveredFrom(bytes, ranges, k) ==
    IF k >= Len(bytes) THEN <<>>
    ELSE (IF Covered(ranges, k) THEN <<>> ELSE <<bytes[k + 1]>>)
             \o UncoveredFrom(bytes, ranges, k + 1)

Uncovered(text, ranges) == UncoveredFrom(Bytes(text), ranges, 0)

\* C26: deleting from old the bytes covered by old_ranges and from new the
\* bytes covered by new_ranges leaves two identical strings.
C26_UnmarkedPartsAgree ==
    Computed
        => Uncovered(old_text, intra_line_diff.old_ranges)
               = Uncovered(new_text, intra_line_diff.new_ranges)

C26_Witness ==
    /\ Computed
    /\ intra_line_diff.old_ranges /= <<>>
    /\ intra_line_diff.new_ranges /= <<>>
    /\ Len(Uncovered(old_text, intra_line_diff.old_ranges)) >= 2
    /\ old_text /= new_text

----------------------------------------------------------------------------
(* The window of a renderer: the lines covered and the rows of the columns *)

\* the line indices a sequence of units renders, in the order of the units
RECURSIVE UnitIndices(_)
UnitIndices(units) ==
    IF units = <<>> THEN <<>>
    ELSE (IF Head(units).kind = "Pair"
          THEN <<Head(units).index, Head(units).index + 1>>
          ELSE <<Head(units).index>>) \o UnitIndices(Tail(units))

\* the indices scroll_offset .. min(scroll_offset + visible_lines,
\* line_count) - 1, none when the window is empty
WindowIndices ==
    [k \in 1..(ViewEnd - view.scroll_offset) |-> view.scroll_offset + k - 1]

\* every row that shows a line shows a line of the window
RowsInsideWindow(rows) ==
    \A k \in 1..Len(rows) :
        rows[k].cell /= "filler" =>
            /\ view.scroll_offset <= rows[k].index
            /\ rows[k].index < ViewEnd
            /\ rows[k].index < line_count(view.file)

\* C28: for any file, scroll offset and visible-line count, the render units
\* of the pairing loop cover exactly the indices scroll_offset ..
\* min(scroll_offset + visible_lines, line_count) - 1, each once and in
\* increasing order; no index outside the window or beyond the file end is
\* rendered, and a scroll offset at or past the file end yields no units.
C28_UnitsCoverWindow ==
    /\ unified.status = "drawn" =>
           /\ UnitIndices(unified.units) = WindowIndices
           /\ RowsInsideWindow(unified.lines)
           /\ view.scroll_offset >= line_count(view.file) =>
                  unified.units = <<>>
    /\ side_by_side.status = "drawn" =>
           /\ UnitIndices(side_by_side.units) = WindowIndices
           /\ RowsInsideWindow(side_by_side.old_lines)
           /\ RowsInsideWindow(side_by_side.new_lines)
           /\ view.scroll_offset >= line_count(view.file) =>
                  side_by_side.units = <<>>

\* C28 witness: both renderers have drawn a window that starts below the
\* first line, ends above the last one and holds a Pair.
C28_Witness ==
    /\ unified.status = "drawn"
    /\ side_by_side.status = "drawn"
    /\ view.scroll_offset > 0
    /\ view.scroll_offset < ViewEnd
    /\ ViewEnd < line_count(view.file)
    /\ \E u \in 1..Len(unified.units) : unified.units[u].kind = "Pair"
    /\ \E u \in 1..Len(side_by_side.units) : side_by_side.units[u].kind = "Pair"

\* the rows a unit adds to the old and to the new column
RowsOfUnit(unit, old_row, new_row) ==
    LET i == unit.index
    IN  IF unit.kind = "Pair"
        THEN /\ old_row = RenderedLine(i, TRUE)
             /\ KindAt(i) = "Removed"
             /\ new_row = RenderedLine(i + 1, TRUE)
             /\ KindAt(i + 1) = "Added"
        ELSE CASE KindAt(i) = "Context" ->
                      old_row = RenderedLine(i, FALSE) /\ new_row = old_row
               [] KindAt(i) = "Header" ->
                      old_row = HeaderLine(i) /\ new_row = old_row
               [] KindAt(i) = "Removed" ->
                      old_row = RenderedLine(i, FALSE) /\ new_row = Filler
               [] KindAt(i) = "Added" ->
                      old_row = Filler /\ new_row = RenderedLine(i, FALSE)

\* C29: in side-by-side rendering the old and the new column hold the same
\* number of rows after each render unit: a Pair adds its removed line to
\* the old column and its added line to the new one, a Context or Header
\* line adds the same line to both, and an unpaired Removed (resp. Added)
\* line adds a blank filler row to the new (resp. old) column.
C29_ColumnsStayAligned ==
    side_by_side.status = "drawn" =>
        /\ Len(side_by_side.old_lines) = Len(side_by_side.units)
        /\ Len(side_by_side.new_lines) = Len(side_by_side.units)
        /\ \A u \in 1..Len(side_by_side.units) :
               /\ u <= Len(side_by_side.old_lines)
               /\ u <= Len(side_by_side.new_lines)
               /\ RowsOfUnit(side_by_side.units[u],
                             side_by_side.old_lines[u],
                             side_by_side.new_lines[u])

\* C29 witness: the side-by-side renderer has drawn a window with a Pair, an
\* unpaired Removed line and an unpaired Added line.
C29_Witness ==
    /\ side_by_side.status = "drawn"
    /\ \E u, v, w \in 1..Len(side_by_side.units) :
          /\ side_by_side.units[u].kind = "Pair"
          /\ side_by_side.units[v].kind = "Single"
          /\ KindAt(side_by_side.units[v].index) = "Removed"
          /\ side_by_side.new_lines[v] = Filler
          /\ side_by_side.units[w].kind = "Single"
          /\ KindAt(side_by_side.units[w].index) = "Added"
          /\ side_by_side.old_lines[w] = Filler

----------------------------------------------------------------------------
(* The layout of a drawn frame *)

\* the layout is side-by-side exactly when the flag is set and the terminal
\* is 120 columns wider than the 30 columns of the file list, and unified
\* otherwise
LayoutAsDecided ==
    LET wide == frame.width - 30 >= 120
    IN  /\ frame.layout = "side_by_side" <=> (frame.show_side_by_side /\ wide)
        /\ ~(frame.show_side_by_side /\ wide) => frame.layout = "unified"

\* toggle_view_mode tests the width of the whole terminal
ToggleTestsTerminalWidth ==
    \A width \in Widths :
        toggle_view_mode(App, width).show_side_by_side
            <=> (width >= 120 /\ ~show_side_by_side)

\* C30: in every drawn frame the side-by-side layout is used if and only if
\* show_side_by_side is true and the diff area (the terminal width minus the
\* 30-column file list) is at least 120 columns wide; otherwise the unified
\* layout is drawn. The width tested by ToggleViewMode is the full terminal
\* width, so flag and layout are decided by two different width checks.
C30_LayoutFollowsFlagAndAreaWidth ==
    /\ frame.status = "drawn" => LayoutAsDecided
    /\ ToggleTestsTerminalWidth

\* C30 as amended: the same for every drawn frame in which a file is
\* selected; a frame drawn while no file is selected shows neither layout.
C30_LayoutOfSelectedFileFollowsFlagAndAreaWidth ==
    /\ (frame.status = "drawn" /\ frame.file_selected) => LayoutAsDecided
    /\ (frame.status = "drawn" /\ ~frame.file_selected) =>
           frame.layout = "none"
    /\ ToggleTestsTerminalWidth

\* C30 witness: the flag is set, which a toggle at 120 columns or more did,
\* and the frame of a file drawn on a terminal of 120 to 149 columns, where
\* a toggle sets the flag, is in the unified layout.
C30_Witness ==
    /\ frame.status = "drawn"
    /\ frame.file_selected
    /\ frame.show_side_by_side
    /\ show_side_by_side
    /\ frame.width >= 120
    /\ frame.width < 150
    /\ toggle_view_mode([App EXCEPT !.show_side_by_side = FALSE],
                        frame.width).show_side_by_side
    /\ frame.layout = "unified"

----------------------------------------------------------------------------
(* The projection of ranges onto styled fragments *)

Highlighted == highlighted.status = "returned"

\* the concatenation of the texts of a sequence of fragments
RECURSIVE ConcatContents(_)
ConcatContents(fragments) ==
    IF fragments = <<>> THEN <<>>
    ELSE Head(fragments).content \o ConcatContents(Tail(fragments))

\* the byte offset at which fragment k of a sequence starts
StartOf(fragments, k) == ByteLen(ConcatContents(SubSeq(fragments, 1, k - 1)))
EndOf(fragments, k) == ByteLen(ConcatContents(SubSeq(fragments, 1, k)))

InsideRange(a, b) ==
    \E r \in 1..Len(diff_ranges) :
        diff_ranges[r].start <= a /\ b <= diff_ranges[r].end

OutsideRanges(a, b) ==
    \A r \in 1..Len(diff_ranges) :
        b <= diff_ranges[r].start \/ diff_ranges[r].end <= a

RangesNonEmpty ==
    \A r \in 1..Len(diff_ranges) : diff_ranges[r].start < diff_ranges[r].end

\* output fragment k lies inside one range or outside all of them, inside
\* the input fragment it was cut from, and has that fragment's style with
\* the background of its side
ProjectedFragment(k) ==
    LET a == StartOf(highlighted.spans, k)
        b == EndOf(highlighted.spans, k)
        from == highlighted.origin[k]
    IN  /\ InsideRange(a, b) \/ OutsideRanges(a, b)
        /\ from \in 1..Len(spans)
        /\ StartOf(spans, from) <= a
        /\ b <= EndOf(spans, from)
        /\ highlighted.spans[k].style.fg = spans[from].style.fg
        /\ highlighted.spans[k].style.modifier = spans[from].style.modifier
        /\ highlighted.spans[k].style.bg =
               IF InsideRange(a, b) THEN HighlightBg ELSE BaseBg

\* C23: for any gap-free fragment sequence and any sorted non-overlapping
\* set of non-empty ranges, every fragment apply_diff_highlight outputs has
\* a byte span entirely inside one range or entirely outside all ranges and
\* carries the foreground and modifiers of the input fragment it was cut
\* from, with background highlight_bg inside a range and base_bg otherwise,
\* also when a range straddles a fragment boundary or a fragment meets
\* several ranges.
C23_FragmentsInsideOrOutside ==
    (Highlighted /\ RangesNonEmpty) =>
        \A k \in 1..Len(highlighted.spans) : ProjectedFragment(k)

\* C23 witness: a call has returned in which the first fragment meets two
\* ranges, the second range straddles the boundary between the fragments,
\* and fragments of both backgrounds are output.
C23_Witness ==
    /\ Highlighted
    /\ RangesNonEmpty
    /\ Len(spans) = 2
    /\ Len(diff_ranges) = 2
    /\ diff_ranges[1].end <= EndOf(spans, 1)
    /\ diff_ranges[2].start < EndOf(spans, 1)
    /\ diff_ranges[2].end > EndOf(spans, 1)
    /\ \E k \in 1..Len(highlighted.spans) :
           highlighted.spans[k].style.bg = BaseBg
    /\ \E k \in 1..Len(highlighted.spans) :
           /\ highlighted.spans[k].style.bg = HighlightBg
           /\ highlighted.origin[k] = 2

\* C24: with an empty range set apply_diff_highlight returns the input
\* fragments unchanged in number, order and text, empty fragments included,
\* each with its style except that the background is base_bg.
C24_NoRangesKeepsFragments ==
    (Highlighted /\ diff_ranges = <<>>) =>
        /\ Len(highlighted.spans) = Len(spans)
        /\ \A k \in 1..Len(spans) :
               /\ k <= Len(highlighted.spans)
               /\ highlighted.spans[k].content = spans[k].content
               /\ highlighted.spans[k].style.fg = spans[k].style.fg
               /\ highlighted.spans[k].style.modifier = spans[k].style.modifier
               /\ highlighted.spans[k].style.bg = BaseBg

\* C24 witness: a call without ranges has returned for an empty fragment
\* followed by a fragment that has text and a background of its own.
C24_Witness ==
    /\ Highlighted
    /\ diff_ranges = <<>>
    /\ Len(spans) = 2
    /\ spans[1].content = <<>>
    /\ spans[2].content /= <<>>
    /\ spans[2].style.bg = "Blue"

\* the texts are kept and the cursor follows the fragments
TextKept ==
    /\ ConcatContents(highlighted.spans) = ConcatContents(spans)
    /\ \A k \in 1..Len(highlighted.cursors) :
           highlighted.cursors[k] = EndOf(spans, k)

\* C27: for any fragments and any sorted non-overlapping ranges, those that
\* extend past the end of the content included, the concatenation of the
\* texts of the output fragments equals that of the input fragments, and
\* the running byte cursor after each fragment is the sum of the lengths of
\* the fragments processed so far.
C27_TextPreserved ==
    highlighted.status /= "pending" => (Highlighted /\ TextKept)

\* every range boundary inside the content is a character boundary of it
RangesOnCharBoundaries ==
    LET content == ConcatContents(spans)
    IN  \A r \in 1..Len(diff_ranges) :
            /\ diff_ranges[r].start < ByteLen(content) =>
                   IsCharBoundary(content, diff_ranges[r].start)
            /\ diff_ranges[r].end < ByteLen(content) =>
                   IsCharBoundary(content, diff_ranges[r].end)

\* C27 as amended: the same for ranges whose boundaries inside the content
\* fall on character boundaries.
C27_TextPreservedOnCharBoundaries ==
    (highlighted.status /= "pending" /\ RangesOnCharBoundaries)
        => (Highlighted /\ TextKept)

\* C27 witness: a call has returned for two fragments with a two-byte
\* character and a range that starts inside the content and ends past it.
C27_Witness ==
    /\ Highlighted
    /\ RangesOnCharBoundaries
    /\ Len(spans) = 2
    /\ \E k \in 1..Len(spans[2].content) : spans[2].content[k] \in TwoByteChars
    /\ spans[1].content /= <<>>
    /\ \E r \in 1..Len(diff_ranges) :
           /\ 0 < diff_ranges[r].start
           /\ diff_ranges[r].start < ByteLen(ConcatContents(spans))
           /\ diff_ranges[r].end > ByteLen(ConcatContents(spans))
    /\ \E k \in 1..Len(highlighted.spans) :
           highlighted.spans[k].style.bg = BaseBg
    /\ \E k \in 1..Len(highlighted.spans) :
           highlighted.spans[k].style.bg = HighlightBg

----------------------------------------------------------------------------
(* The line-number prefix of a rendered line *)

\* a 4-character field: the number right-aligned, or blanks for an absent one
NumberField(line_num) ==
    IF IsSome(line_num) THEN Format4(Unwrap(line_num)) ELSE Blanks(4)

UpToFourDigits(line_num) ==
    IsSome(line_num) => U32Leq(Unwrap(line_num), U32(9999))

\* C25: the line-number prefix of a line has the same fixed width in all
\* four cases (both numbers, only old, only new, neither): two 4-character
\* right-aligned fields with a colon separator, an absent side shown as
\* blanks of the same width, for line numbers of up to 4 digits.
C25_LineNumberPrefixFixedWidth ==
    (/\ rendered_line.status = "drawn"
     /\ UpToFourDigits(diff_line.old_line_num)
     /\ UpToFourDigits(diff_line.new_line_num)) =>
        LET text == rendered_line.spans[1].content
        IN  /\ Len(text) = 10
            /\ SubSeq(text, 1, 4) = NumberField(diff_line.old_line_num)
            /\ text[5] = ":"
            /\ SubSeq(text, 6, 9) = NumberField(diff_line.new_line_num)

====
